---- MODULE Spec2Model ----
(***************************************************************************)
(* AI Hunger Games: the round / voting / elimination engine of             *)
(* ai_hunger_games (arena.controller, voting.strategy, voting.aggregation, *)
(* arena.elimination) and the event log with its replay engine             *)
(* (observability.logger, observability.replay).                           *)
(*                                                                         *)
(* Python values are modelled as follows.                                  *)
(*   str agent ids        strings of Ids, ordered as IdSeq (Python's       *)
(*                        string order on these ids)                       *)
(*   dict                 a sequence of <<key, value>> pairs in insertion  *)
(*                        order with distinct keys (a ballot), or a        *)
(*                        function on the key set where the order is not   *)
(*                        observable (vote_counts, cumulative_votes)       *)
(*   list / tuple         a sequence                                       *)
(*   dataclass            a record with the dataclass's field names        *)
(*   raise E              a record [raised |-> "E", value |-> NoValue]     *)
(*   return v             a record [raised |-> "none", value |-> v]        *)
(*   float average a / n  the reduced fraction <<a', n'>> (exact for the   *)
(*                        small integers of the model, where two floats    *)
(*                        a/n and b/m are equal iff the fractions are)     *)
(*   hash(str)            hashOf[str]: fixed for the life of a process,    *)
(*                        chosen arbitrarily when the process starts       *)
(*                        (PYTHONHASHSEED)                                 *)
(***************************************************************************)
EXTENDS Integers, Sequences, FiniteSets, TLC

VARIABLES
    registry,          \* AgentRegistry._agents: sequence of agent records (dict order)
    current_round,     \* ArenaController._current_round
    round_history,     \* ArenaController._round_history
    voting_history,    \* ArenaController._voting_history
    cumulative_votes,  \* ArenaController._cumulative_votes: function on its key set
    random_seed,       \* Settings.random_seed
    log,               \* the event log file: sequence of entries [event_type, data]
    eliminations,      \* the EliminationResults returned so far, with the round of the call
    ret,               \* outcome of the last controller operation: [op, raised]
    hashOf,            \* this process's str hash
    result,            \* the last call of a function on its own: [op, args, out]
    coordinator        \* the AgentReplacementCoordinator with its PersonalityGenerator

vars == <<registry, current_round, round_history, voting_history,
          cumulative_votes, random_seed, log, eliminations, ret, hashOf, result,
          coordinator>>

ctrlVars == <<registry, current_round, round_history, voting_history,
              cumulative_votes, log, eliminations, ret, coordinator>>

-----------------------------------------------------------------------------
(* Bounds of the model *)

MaxOps == 4             \* controller operations that succeed in one run
MaxBallot == 2          \* entries of a ballot (vote_choices)
MaxParticipants == 3    \* responses of a round state given to collect_votes on its own
MaxScore == 1           \* cumulative_votes of a candidate given to determine_elimination on its own
MaxAvgHalves == 2       \* historical_average of such a candidate, in halves
MaxLogLen == 4          \* entries of a log written by hand and given to replay

-----------------------------------------------------------------------------
(* Values *)

Ids == {"A", "B", "C", "D"}
IdSeq == <<"A", "B", "C", "D">>
Prompts == {"p"}

NoValue == "NoValue"
None == "None"

IdRank(id) == CHOOSE i \in 1..Len(IdSeq) : IdSeq[i] = id

Range(s) == {s[i] : i \in 1..Len(s)}

RECURSIVE SumSeq(_)
SumSeq(s) == IF s = <<>> THEN 0 ELSE s[1] + SumSeq(Tail(s))

SeqsUpTo(S, n) == UNION {[1..k -> S] : k \in 0..n}

\* the values hash(str) takes in the model, and the seeds of Settings.random_seed
HashValues == {0 - 1, 0}
Seeds == {0 - 1, 0}

Raise(e) == [raised |-> e, value |-> NoValue]
Return(v) == [raised |-> "none", value |-> v]

-----------------------------------------------------------------------------
(* voting/types.py, arena/round_state.py: the dataclasses *)

Vote(voter_id, voted_for_id, round_number) ==
    [voter_id |-> voter_id, voted_for_id |-> voted_for_id, round_number |-> round_number]

VoteResult(agent_id, votes_received) ==
    [agent_id |-> agent_id, votes_received |-> votes_received]

VotingRoundResult(round_number, votes, results) ==
    [round_number |-> round_number, votes |-> votes, results |-> results]

AgentResponse(agent_id, response) == [agent_id |-> agent_id, response |-> response]

RoundState(round_number, prompt, responses, is_complete) ==
    [round_number |-> round_number, prompt |-> prompt,
     responses |-> responses, is_complete |-> is_complete]

\* RoundState.add_response
add_response(round_state, agent_id, response) ==
    [round_state EXCEPT !.responses = Append(@, AgentResponse(agent_id, response))]

\* VotingRoundResult.get_votes_for: the first result of agent_id, 0 when there is none
get_votes_for(vrr, agent_id) ==
    LET hits == {i \in 1..Len(vrr.results) : vrr.results[i].agent_id = agent_id}
    IN  IF hits = {} THEN 0
        ELSE vrr.results[CHOOSE i \in hits : \A j \in hits : i <= j].votes_received

-----------------------------------------------------------------------------
(* voting/strategy.py: collect_votes.  vote_choices is the ballot, a sequence *)
(* of <<voter_id, voted_for_id>> pairs in the dict's iteration order.         *)

RECURSIVE collect_loop(_, _, _, _)
collect_loop(round_state, vote_choices, i, votes) ==
    IF i > Len(vote_choices) THEN Return(votes)
    ELSE LET voter_id == vote_choices[i][1]
             voted_for_id == vote_choices[i][2]
             agent_ids == {round_state.responses[k].agent_id :
                              k \in 1..Len(round_state.responses)}
         IN  IF voter_id = voted_for_id THEN Raise("SelfVoteError")
             ELSE IF voted_for_id \notin agent_ids THEN Raise("InvalidVoteError")
             ELSE collect_loop(round_state, vote_choices, i + 1,
                      Append(votes, Vote(voter_id, voted_for_id, round_state.round_number)))

\* collect_votes returning the votes gathered so far where it should raise
RECURSIVE collect_loop_partial(_, _, _, _)
collect_loop_partial(round_state, vote_choices, i, votes) ==
    IF i > Len(vote_choices) THEN Return(votes)
    ELSE LET voter_id == vote_choices[i][1]
             voted_for_id == vote_choices[i][2]
             agent_ids == {round_state.responses[k].agent_id :
                              k \in 1..Len(round_state.responses)}
         IN  IF voter_id = voted_for_id \/ voted_for_id \notin agent_ids
             THEN Return(votes)
             ELSE collect_loop_partial(round_state, vote_choices, i + 1,
                      Append(votes, Vote(voter_id, voted_for_id, round_state.round_number)))

collect_votes_partial(round_state, vote_choices) ==
    collect_loop_partial(round_state, vote_choices, 1, <<>>)

\* collect_votes without the check of the target
RECURSIVE collect_loop_any_target(_, _, _, _)
collect_loop_any_target(round_state, vote_choices, i, votes) ==
    IF i > Len(vote_choices) THEN Return(votes)
    ELSE LET voter_id == vote_choices[i][1]
             voted_for_id == vote_choices[i][2]
         IN  IF voter_id = voted_for_id THEN Raise("SelfVoteError")
             ELSE collect_loop_any_target(round_state, vote_choices, i + 1,
                      Append(votes, Vote(voter_id, voted_for_id, round_state.round_number)))

collect_votes_any_target(round_state, vote_choices) ==
    collect_loop_any_target(round_state, vote_choices, 1, <<>>)

collect_votes(round_state, vote_choices) ==
    collect_loop(round_state, vote_choices, 1, <<>>)

-----------------------------------------------------------------------------
(* voting/aggregation.py: aggregate_votes *)

\* the tally loop: one increment per vote whose target is a key of vote_counts
RECURSIVE count_loop(_, _, _)
count_loop(votes, i, vote_counts) ==
    IF i > Len(votes) THEN vote_counts
    ELSE LET t == votes[i].voted_for_id
         IN  count_loop(votes, i + 1,
                 IF t \in DOMAIN vote_counts
                 THEN [vote_counts EXCEPT ![t] = @ + 1]
                 ELSE vote_counts)

\* sorted(vote_counts.items()): the keys in ascending string order
RECURSIVE sorted_ids(_)
sorted_ids(S) ==
    IF S = {} THEN <<>>
    ELSE LET m == CHOOSE x \in S : \A y \in S : IdRank(x) <= IdRank(y)
         IN  <<m>> \o sorted_ids(S \ {m})

\* aggregate_votes counting from the votes alone: no entry for an agent without votes
aggregate_votes_voted_only(votes, round_number, all_agent_ids) ==
    LET voted == {votes[i].voted_for_id : i \in 1..Len(votes)} \cap Range(all_agent_ids)
        vote_counts == count_loop(votes, 1, [a \in voted |-> 0])
        keys == sorted_ids(DOMAIN vote_counts)
        results == [i \in 1..Len(keys) |-> VoteResult(keys[i], vote_counts[keys[i]])]
    IN  VotingRoundResult(round_number, votes, results)

aggregate_votes(votes, round_number, all_agent_ids) ==
    LET zero == [a \in Range(all_agent_ids) |-> 0]
        vote_counts == count_loop(votes, 1, zero)
        keys == sorted_ids(DOMAIN vote_counts)
        results == [i \in 1..Len(keys) |-> VoteResult(keys[i], vote_counts[keys[i]])]
    IN  VotingRoundResult(round_number, votes, results)

-----------------------------------------------------------------------------
(* arena/elimination.py: determine_elimination, _break_tie *)

EliminationCandidate(agent_id, cumulative, historical_average) ==
    [agent_id |-> agent_id, cumulative_votes |-> cumulative,
     historical_average |-> historical_average]

EliminationResult(eliminated_agent_id, cumulative, was_tie) ==
    [eliminated_agent_id |-> eliminated_agent_id,
     cumulative_votes |-> cumulative, was_tie |-> was_tie]

\* Fractions <<num, den>>, den > 0, in lowest terms: the float num / den.
RECURSIVE Gcd(_, _)
Gcd(a, b) == IF b = 0 THEN a ELSE Gcd(b, a % b)

Frac(num, den) ==
    LET g == Gcd(num, den) IN IF g = 0 THEN <<0, 1>> ELSE <<num \div g, den \div g>>

FracLeq(x, y) == x[1] * y[2] <= y[1] * x[2]

\* Python's a ^ b on int: bitwise on the two's complement of unbounded width
\* (x % 2 is the lowest bit and x \div 2, rounding down, the bits above it)
RECURSIVE Xor(_, _)
Xor(a, b) ==
    IF a = 0 THEN b
    ELSE IF b = 0 THEN a
    ELSE IF a = 0 - 1 /\ b = 0 - 1 THEN 0
    ELSE (((a % 2) + (b % 2)) % 2) + (2 * Xor(a \div 2, b \div 2))

\* the sort key of the last tier: hash(c.agent_id) ^ seed
tie_key(c, seed) == Xor(hashOf[c.agent_id], seed)

\* sorted(avg_tied, key = ...)[0]: the sort is stable, so the first element of
\* the list that has the least key
first_by_key(avg_tied, seed) ==
    LET least(i) == \A j \in 1..Len(avg_tied) :
                        tie_key(avg_tied[i], seed) <= tie_key(avg_tied[j], seed)
        i0 == CHOOSE i \in 1..Len(avg_tied) :
                  least(i) /\ \A j \in 1..(i - 1) : ~least(j)
    IN  avg_tied[i0]

\* _break_tie taking the highest average
break_tie_max_average(tied_candidates, seed) ==
    LET max_avg == CHOOSE a \in {tied_candidates[i].historical_average :
                                    i \in 1..Len(tied_candidates)} :
                       \A i \in 1..Len(tied_candidates) :
                           FracLeq(tied_candidates[i].historical_average, a)
        isMax(c) == c.historical_average = max_avg
        avg_tied == SelectSeq(tied_candidates, isMax)
    IN  IF Len(avg_tied) = 1 THEN avg_tied[1]
        ELSE first_by_key(avg_tied, seed)

\* _break_tie sorting tied_candidates, not avg_tied, in the last tier
break_tie_sort_all(tied_candidates, seed) ==
    LET min_avg == CHOOSE a \in {tied_candidates[i].historical_average :
                                    i \in 1..Len(tied_candidates)} :
                       \A i \in 1..Len(tied_candidates) :
                           FracLeq(a, tied_candidates[i].historical_average)
        isMin(c) == c.historical_average = min_avg
        avg_tied == SelectSeq(tied_candidates, isMin)
    IN  IF Len(avg_tied) = 1 THEN avg_tied[1]
        ELSE first_by_key(tied_candidates, seed)

break_tie(tied_candidates, seed) ==
    LET min_avg == CHOOSE a \in {tied_candidates[i].historical_average :
                                    i \in 1..Len(tied_candidates)} :
                       \A i \in 1..Len(tied_candidates) :
                           FracLeq(a, tied_candidates[i].historical_average)
        isMin(c) == c.historical_average = min_avg
        avg_tied == SelectSeq(tied_candidates, isMin)
    IN  IF Len(avg_tied) = 1 THEN avg_tied[1]
        ELSE first_by_key(avg_tied, seed)

\* determine_elimination setting was_tie from what the tie-break left
determine_elimination_tie_after(candidates, seed) ==
    IF candidates = <<>> THEN Raise("ValueError")
    ELSE LET max_votes == CHOOSE m \in {candidates[i].cumulative_votes :
                                           i \in 1..Len(candidates)} :
                              \A i \in 1..Len(candidates) :
                                  candidates[i].cumulative_votes <= m
             isMax(c) == c.cumulative_votes = max_votes
             tied == SelectSeq(candidates, isMax)
             min_avg == CHOOSE a \in {tied[i].historical_average : i \in 1..Len(tied)} :
                            \A i \in 1..Len(tied) : FracLeq(a, tied[i].historical_average)
             isMin(c) == c.historical_average = min_avg
             was_tie == Len(SelectSeq(tied, isMin)) > 1
             eliminated == IF Len(tied) = 1 THEN tied[1] ELSE break_tie(tied, seed)
         IN  Return(EliminationResult(eliminated.agent_id,
                                      eliminated.cumulative_votes, was_tie))

\* determine_elimination returning a result without an agent for an empty list
determine_elimination_empty_pick(candidates, seed) ==
    IF candidates = <<>> THEN Return(EliminationResult(None, 0, FALSE))
    ELSE LET max_votes == CHOOSE m \in {candidates[i].cumulative_votes :
                                           i \in 1..Len(candidates)} :
                              \A i \in 1..Len(candidates) :
                                  candidates[i].cumulative_votes <= m
             isMax(c) == c.cumulative_votes = max_votes
             tied == SelectSeq(candidates, isMax)
             was_tie == Len(tied) > 1
             eliminated == IF Len(tied) = 1 THEN tied[1] ELSE break_tie(tied, seed)
         IN  Return(EliminationResult(eliminated.agent_id,
                                      eliminated.cumulative_votes, was_tie))

\* determine_elimination
determine_elimination(candidates, seed) ==
    IF candidates = <<>> THEN Raise("ValueError")
    ELSE LET max_votes == CHOOSE m \in {candidates[i].cumulative_votes :
                                           i \in 1..Len(candidates)} :
                              \A i \in 1..Len(candidates) :
                                  candidates[i].cumulative_votes <= m
             isMax(c) == c.cumulative_votes = max_votes
             tied == SelectSeq(candidates, isMax)
             was_tie == Len(tied) > 1
             eliminated == IF Len(tied) = 1 THEN tied[1] ELSE break_tie(tied, seed)
         IN  Return(EliminationResult(eliminated.agent_id,
                                      eliminated.cumulative_votes, was_tie))

-----------------------------------------------------------------------------
(* observability/logger.py and events.py: the entries of the log file.  An   *)
(* entry is the JSON object {"event_type": ..., "data": {...}} of one line;  *)
(* the data written here are str, int, bool and dict[str, int] values, which *)
(* json.dumps / json.loads give back unchanged.  utcnow() is not modelled:   *)
(* every timestamp is the same string.                                       *)

timestamp == "utcnow"

Entry(event_type, data) == [event_type |-> event_type, data |-> data]

\* EventLogger.__init__ writing an empty file whether or not one exists
EventLogger_truncating(exists, content) == <<>>

\* EventLogger.__init__: the content of the log file after the constructor,
\* for a file that exists with this content or does not exist
EventLogger(exists, content) == IF exists THEN content ELSE <<>>

RoundStartedEvent(round_number, prompt) ==
    Entry("RoundStarted",
          [round_number |-> round_number, prompt |-> prompt, timestamp |-> timestamp])

AgentRespondedEvent(round_number, agent_id, response) ==
    Entry("AgentResponded",
          [round_number |-> round_number, agent_id |-> agent_id,
           response |-> response, timestamp |-> timestamp])

VoteCastEvent(round_number, voter_id, voted_for_id) ==
    Entry("VoteCast",
          [round_number |-> round_number, voter_id |-> voter_id,
           voted_for_id |-> voted_for_id, timestamp |-> timestamp])

VoteSummaryEvent(round_number, vote_counts) ==
    Entry("VoteSummary",
          [round_number |-> round_number, vote_counts |-> vote_counts,
           timestamp |-> timestamp])

EliminationDecidedEvent(round_number, eliminated_agent_id, cumulative, was_tie) ==
    Entry("EliminationDecided",
          [round_number |-> round_number, eliminated_agent_id |-> eliminated_agent_id,
           cumulative_votes |-> cumulative, was_tie |-> was_tie,
           timestamp |-> timestamp])

AgentReplacedEvent(round_number, agent_id, old_personality, new_personality) ==
    Entry("AgentReplaced",
          [round_number |-> round_number, agent_id |-> agent_id,
           old_personality |-> old_personality, new_personality |-> new_personality,
           timestamp |-> timestamp])

ArenaInitializedEvent(agent_ids) ==
    Entry("ArenaInitialized",
          [num_agents |-> Len(agent_ids), agent_ids |-> agent_ids, timestamp |-> timestamp])

-----------------------------------------------------------------------------
(* observability/replay.py: ReplayEngine.replay and _build_summaries *)

ReplayRoundSummary(round_number, round_data) ==
    [round_number |-> round_number,
     prompt |-> round_data.prompt,
     num_responses |-> Len(round_data.responses),
     num_votes |-> Len(round_data.votes),
     vote_counts |-> round_data.vote_counts,
     eliminated_agent_id |-> round_data.eliminated,
     was_elimination_round |-> round_data.eliminated # None]

\* sorted(rounds.keys())
RECURSIVE sorted_nums(_)
sorted_nums(S) ==
    IF S = {} THEN <<>>
    ELSE LET m == CHOOSE x \in S : \A y \in S : x <= y
         IN  <<m>> \o sorted_nums(S \ {m})

\* _build_summaries going through the round numbers from the highest down
build_summaries_descending(rounds) ==
    LET keys == sorted_nums(DOMAIN rounds)
    IN  [i \in 1..Len(keys) |->
            ReplayRoundSummary(keys[Len(keys) + 1 - i], rounds[keys[Len(keys) + 1 - i]])]

build_summaries(rounds) ==
    LET keys == sorted_nums(DOMAIN rounds)
    IN  [i \in 1..Len(keys) |-> ReplayRoundSummary(keys[i], rounds[keys[i]])]

\* rounds[round_num] = {...}: a dict store, which adds the key or overwrites it
DictSet(d, k, v) == [x \in DOMAIN d \cup {k} |-> IF x = k THEN v ELSE d[x]]

\* the cumulative score of an agent id, 0 when the map has no entry for it
ScoreOf(cum, a) == IF a \in DOMAIN cum THEN cum[a] ELSE 0

\* the RoundStarted branch
replay_round_started(rounds, data) ==
    Return(DictSet(rounds, data.round_number,
                   [prompt |-> data.prompt, responses |-> <<>>, votes |-> <<>>,
                    vote_counts |-> <<>>, eliminated |-> None]))

\* the loop body skipping a VoteCast of a round it does not know
replay_event_skip_vote(rounds, entry) ==
    LET data == entry.data
        n == data.round_number
    IN  IF entry.event_type = "RoundStarted" THEN replay_round_started(rounds, data)
        ELSE IF entry.event_type = "AgentResponded" THEN
            IF n \notin DOMAIN rounds THEN Raise("ReplayInconsistencyError")
            ELSE Return([rounds EXCEPT ![n].responses = Append(@, data)])
        ELSE IF entry.event_type = "VoteCast" THEN
            IF n \notin DOMAIN rounds THEN Return(rounds)
            ELSE Return([rounds EXCEPT ![n].votes = Append(@, data)])
        ELSE IF entry.event_type = "VoteSummary" THEN
            IF n \notin DOMAIN rounds THEN Raise("ReplayInconsistencyError")
            ELSE Return([rounds EXCEPT ![n].vote_counts = data.vote_counts])
        ELSE IF entry.event_type = "EliminationDecided" THEN
            IF n \notin DOMAIN rounds THEN Raise("ReplayInconsistencyError")
            ELSE Return([rounds EXCEPT ![n].eliminated = data.eliminated_agent_id])
        ELSE Return(rounds)

\* the loop body looking for the round of an AgentReplaced event
replay_event_checks_replaced(rounds, entry) ==
    LET data == entry.data
        n == data.round_number
    IN  IF entry.event_type = "RoundStarted" THEN replay_round_started(rounds, data)
        ELSE IF entry.event_type = "AgentResponded" THEN
            IF n \notin DOMAIN rounds THEN Raise("ReplayInconsistencyError")
            ELSE Return([rounds EXCEPT ![n].responses = Append(@, data)])
        ELSE IF entry.event_type = "VoteCast" THEN
            IF n \notin DOMAIN rounds THEN Raise("ReplayInconsistencyError")
            ELSE Return([rounds EXCEPT ![n].votes = Append(@, data)])
        ELSE IF entry.event_type = "VoteSummary" THEN
            IF n \notin DOMAIN rounds THEN Raise("ReplayInconsistencyError")
            ELSE Return([rounds EXCEPT ![n].vote_counts = data.vote_counts])
        ELSE IF entry.event_type = "EliminationDecided" THEN
            IF n \notin DOMAIN rounds THEN Raise("ReplayInconsistencyError")
            ELSE Return([rounds EXCEPT ![n].eliminated = data.eliminated_agent_id])
        ELSE IF entry.event_type = "AgentReplaced" THEN
            IF n \notin DOMAIN rounds THEN Raise("ReplayInconsistencyError")
            ELSE Return(rounds)
        ELSE Return(rounds)

\* one pass of the loop over the events: the rounds dict after it, or the raise
replay_event(rounds, entry) ==
    LET data == entry.data
        n == data.round_number
    IN  IF entry.event_type = "RoundStarted" THEN replay_round_started(rounds, data)
        ELSE IF entry.event_type = "AgentResponded" THEN
            IF n \notin DOMAIN rounds THEN Raise("ReplayInconsistencyError")
            ELSE Return([rounds EXCEPT ![n].responses = Append(@, data)])
        ELSE IF entry.event_type = "VoteCast" THEN
            IF n \notin DOMAIN rounds THEN Raise("ReplayInconsistencyError")
            ELSE Return([rounds EXCEPT ![n].votes = Append(@, data)])
        ELSE IF entry.event_type = "VoteSummary" THEN
            IF n \notin DOMAIN rounds THEN Raise("ReplayInconsistencyError")
            ELSE Return([rounds EXCEPT ![n].vote_counts = data.vote_counts])
        ELSE IF entry.event_type = "EliminationDecided" THEN
            IF n \notin DOMAIN rounds THEN Raise("ReplayInconsistencyError")
            ELSE Return([rounds EXCEPT ![n].eliminated = data.eliminated_agent_id])
        ELSE Return(rounds)

RECURSIVE replay_loop(_, _, _)
replay_loop(events, i, rounds) ==
    IF i > Len(events) THEN Return(build_summaries(rounds))
    ELSE LET step == replay_event(rounds, events[i])
         IN  IF step.raised # "none" THEN step
             ELSE replay_loop(events, i + 1, step.value)

replay(events) == replay_loop(events, 1, <<>>)

-----------------------------------------------------------------------------
(* agents/agent.py, agents/memory.py: the agent records of the registry *)

DefaultMemoryWindow == 5

DefaultPersonality ==
    [communication_style |-> "concise", ethical_stance |-> "strict",
     social_strategy |-> "cooperative", risk_tolerance |-> "low", seed |-> 0]

Agent(agent_id, personality, memory_window) ==
    [agent_id |-> agent_id, personality |-> personality,
     memory |-> <<>>, window_size |-> memory_window]

MemoryEntry(round_number, prompt, response) ==
    [round_number |-> round_number, prompt |-> prompt, response |-> response,
     vote_cast |-> None, vote_counts |-> None]

\* add_entry keeping the first window_size entries
add_entry_keep_first(entries, window_size, entry) ==
    LET appended == Append(entries, entry)
    IN  IF Len(appended) > window_size
        THEN SubSeq(appended, 1, window_size)
        ELSE appended

\* AgentMemory.add_entry: append, then keep the last window_size entries
add_entry(entries, window_size, entry) ==
    LET appended == Append(entries, entry)
    IN  IF Len(appended) > window_size
        THEN SubSeq(appended, Len(appended) - window_size + 1, Len(appended))
        ELSE appended

\* Agent._generate_stub_response: the text is a function of these four values
generate_stub_response(agent, round_number, prompt) ==
    <<agent.agent_id, round_number, prompt, agent.personality.communication_style>>

\* Agent.generate_response: the agent after the call (its memory has the entry)
agent_after_response(agent, round_number, prompt) ==
    [agent EXCEPT !.memory =
        add_entry(@, agent.window_size,
                  MemoryEntry(round_number, prompt,
                              generate_stub_response(agent, round_number, prompt)))]

\* AgentRegistry.get_ids
get_ids(reg) == [i \in 1..Len(reg) |-> reg[i].agent_id]

\* agent_id in self._agents
registered(reg, agent_id) == \E i \in 1..Len(reg) : reg[i].agent_id = agent_id

\* AgentRegistry.get
registry_get(reg, agent_id) ==
    IF ~registered(reg, agent_id) THEN Raise("AgentNotFoundError")
    ELSE Return(reg[CHOOSE i \in 1..Len(reg) : reg[i].agent_id = agent_id])

\* AgentRegistry.remove: dict.pop takes the key out and keeps the order of the rest
registry_remove(reg, agent_id) ==
    IF ~registered(reg, agent_id) THEN Raise("AgentNotFoundError")
    ELSE LET other(a) == a.agent_id # agent_id
         IN  Return(SelectSeq(reg, other))

\* AgentRegistry.register without the test for the id
registry_register_no_test(reg, agent) == Return(Append(reg, agent))

\* AgentRegistry.register: a new key of a dict comes last
registry_register(reg, agent) ==
    IF registered(reg, agent.agent_id) THEN Raise("DuplicateAgentError")
    ELSE Return(Append(reg, agent))

-----------------------------------------------------------------------------
(* evolution/personality_generator.py, evolution/post_mortem.py,             *)
(* evolution/replacement.py                                                  *)

CommunicationStyle == <<"concise", "verbose", "rhetorical", "analytical">>
EthicalStance == <<"strict", "flexible", "amoral">>
SocialStrategy == <<"cooperative", "opportunistic", "adversarial">>
RiskTolerance == <<"low", "medium", "high">>

\* the k-th rng.choice(list(E)) of random.Random(seed): a fixed function of the
\* seed and the place of the draw
rng_choice(enum, seed, k) == enum[((seed + k) % Len(enum)) + 1]

Personality(communication_style, ethical_stance, social_strategy, risk_tolerance, seed) ==
    [communication_style |-> communication_style, ethical_stance |-> ethical_stance,
     social_strategy |-> social_strategy, risk_tolerance |-> risk_tolerance, seed |-> seed]

\* str(int)
str(n) == <<"str", n>>

\* Personality.to_dict
personality_to_dict(personality) == [personality EXCEPT !.seed = str(@)]

\* the coordinator of a controller: absent (configured is FALSE), or with an
\* empty post-mortem list and a generator that has generated nothing
Coordinator(configured, base_seed, memory_window) ==
    [configured |-> configured, base_seed |-> base_seed, generation_count |-> 0,
     memory_window |-> memory_window, post_mortem_records |-> <<>>]

PostMortemRecord(agent_id, personality, rounds_survived, total_votes_received, elimination_round, was_tie) ==
    [agent_id |-> agent_id, personality |-> personality,
     rounds_survived |-> rounds_survived,
     total_votes_received |-> total_votes_received,
     elimination_round |-> elimination_round, was_tie |-> was_tie]

\* PersonalityGenerator._compute_seed
compute_seed(coord, agent_id) ==
    LET seed == coord.base_seed + coord.generation_count
    IN  IF agent_id # "" THEN Xor(seed, hashOf[agent_id]) ELSE seed

\* PersonalityGenerator.generate: the personality (generation_count is
\* incremented by the caller below)
generate(coord, agent_id) ==
    LET seed == compute_seed(coord, agent_id)
    IN  Personality(rng_choice(CommunicationStyle, seed, 1),
                    rng_choice(EthicalStance, seed, 2),
                    rng_choice(SocialStrategy, seed, 3),
                    rng_choice(RiskTolerance, seed, 4), seed)

\* how a replace_agent call ends: raised or not, and the registry and the
\* coordinator it leaves
Replaced(raised, reg, coord, value) ==
    [raised |-> raised, registry |-> reg, coordinator |-> coord, value |-> value]

\* replace_agent that takes the old agent out and registers no new one
replace_agent_no_register(reg, coord, eliminated_agent_id, rounds_survived, total_votes_received, elimination_round, was_tie) ==
    LET old_agent == registry_get(reg, eliminated_agent_id)
    IN  IF old_agent.raised # "none" THEN Replaced(old_agent.raised, reg, coord, NoValue)
        ELSE
        LET record == PostMortemRecord(old_agent.value.agent_id,
                                       old_agent.value.personality, rounds_survived,
                                       total_votes_received, elimination_round, was_tie)
            coord1 == [coord EXCEPT !.post_mortem_records = Append(@, record)]
            removed == registry_remove(reg, eliminated_agent_id)
        IN  IF removed.raised # "none"
            THEN Replaced(removed.raised, reg, coord1, NoValue)
            ELSE
            LET personality == generate(coord1, eliminated_agent_id)
                coord2 == [coord1 EXCEPT !.generation_count = @ + 1]
                new_agent == Agent(eliminated_agent_id, personality, coord.memory_window)
                added == registry_register(removed.value, new_agent)
            IN  Replaced("none", removed.value, coord2, new_agent)

\* replace_agent whose post-mortem carries the personality of the new agent
replace_agent_record_new(reg, coord, eliminated_agent_id, rounds_survived, total_votes_received, elimination_round, was_tie) ==
    LET old_agent == registry_get(reg, eliminated_agent_id)
    IN  IF old_agent.raised # "none" THEN Replaced(old_agent.raised, reg, coord, NoValue)
        ELSE
        LET record == PostMortemRecord(old_agent.value.agent_id,
                                       generate(coord, eliminated_agent_id), rounds_survived,
                                       total_votes_received, elimination_round, was_tie)
            coord1 == [coord EXCEPT !.post_mortem_records = Append(@, record)]
            removed == registry_remove(reg, eliminated_agent_id)
        IN  IF removed.raised # "none"
            THEN Replaced(removed.raised, reg, coord1, NoValue)
            ELSE
            LET personality == generate(coord1, eliminated_agent_id)
                coord2 == [coord1 EXCEPT !.generation_count = @ + 1]
                new_agent == Agent(eliminated_agent_id, personality, coord.memory_window)
                added == registry_register(removed.value, new_agent)
            IN  IF added.raised # "none"
                THEN Replaced(added.raised, removed.value, coord2, NoValue)
                ELSE Replaced("none", added.value, coord2, new_agent)

\* replace_agent putting the new agent at the place of the old one
replace_agent_in_place(reg, coord, eliminated_agent_id, rounds_survived, total_votes_received, elimination_round, was_tie) ==
    LET old_agent == registry_get(reg, eliminated_agent_id)
    IN  IF old_agent.raised # "none" THEN Replaced(old_agent.raised, reg, coord, NoValue)
        ELSE
        LET record == PostMortemRecord(old_agent.value.agent_id,
                                       old_agent.value.personality, rounds_survived,
                                       total_votes_received, elimination_round, was_tie)
            coord1 == [coord EXCEPT !.post_mortem_records = Append(@, record)]
            removed == registry_remove(reg, eliminated_agent_id)
        IN  IF removed.raised # "none"
            THEN Replaced(removed.raised, reg, coord1, NoValue)
            ELSE
            LET personality == generate(coord1, eliminated_agent_id)
                coord2 == [coord1 EXCEPT !.generation_count = @ + 1]
                new_agent == Agent(eliminated_agent_id, personality, coord.memory_window)
                added == Return([i \in 1..Len(reg) |->
                                    IF reg[i].agent_id = eliminated_agent_id
                                    THEN new_agent ELSE reg[i]])
            IN  IF added.raised # "none"
                THEN Replaced(added.raised, removed.value, coord2, NoValue)
                ELSE Replaced("none", added.value, coord2, new_agent)

\* replace_agent generating the new personality before it looks for the agent
replace_agent_generates_first(reg, coord, eliminated_agent_id, rounds_survived, total_votes_received, elimination_round, was_tie) ==
    LET old_agent == registry_get(reg, eliminated_agent_id)
    IN  IF old_agent.raised # "none"
        THEN Replaced(old_agent.raised, reg,
                      [coord EXCEPT !.generation_count = @ + 1], NoValue)
        ELSE
        LET record == PostMortemRecord(old_agent.value.agent_id,
                                       old_agent.value.personality, rounds_survived,
                                       total_votes_received, elimination_round, was_tie)
            coord1 == [coord EXCEPT !.post_mortem_records = Append(@, record)]
            removed == registry_remove(reg, eliminated_agent_id)
        IN  IF removed.raised # "none"
            THEN Replaced(removed.raised, reg, coord1, NoValue)
            ELSE
            LET personality == generate(coord1, eliminated_agent_id)
                coord2 == [coord1 EXCEPT !.generation_count = @ + 1]
                new_agent == Agent(eliminated_agent_id, personality, coord.memory_window)
                added == registry_register(removed.value, new_agent)
            IN  IF added.raised # "none"
                THEN Replaced(added.raised, removed.value, coord2, NoValue)
                ELSE Replaced("none", added.value, coord2, new_agent)

\* replace_agent handing the memory of the old agent to the new one
replace_agent_keeps_memory(reg, coord, eliminated_agent_id, rounds_survived, total_votes_received, elimination_round, was_tie) ==
    LET old_agent == registry_get(reg, eliminated_agent_id)
    IN  IF old_agent.raised # "none" THEN Replaced(old_agent.raised, reg, coord, NoValue)
        ELSE
        LET record == PostMortemRecord(old_agent.value.agent_id,
                                       old_agent.value.personality, rounds_survived,
                                       total_votes_received, elimination_round, was_tie)
            coord1 == [coord EXCEPT !.post_mortem_records = Append(@, record)]
            removed == registry_remove(reg, eliminated_agent_id)
        IN  IF removed.raised # "none"
            THEN Replaced(removed.raised, reg, coord1, NoValue)
            ELSE
            LET personality == generate(coord1, eliminated_agent_id)
                coord2 == [coord1 EXCEPT !.generation_count = @ + 1]
                new_agent == [Agent(eliminated_agent_id, personality,
                                   coord.memory_window)
                                 EXCEPT !.memory = old_agent.value.memory]
                added == registry_register(removed.value, new_agent)
            IN  IF added.raised # "none"
                THEN Replaced(added.raised, removed.value, coord2, NoValue)
                ELSE Replaced("none", added.value, coord2, new_agent)

\* AgentReplacementCoordinator.replace_agent
replace_agent(reg, coord, eliminated_agent_id, rounds_survived, total_votes_received, elimination_round, was_tie) ==
    LET old_agent == registry_get(reg, eliminated_agent_id)
    IN  IF old_agent.raised # "none" THEN Replaced(old_agent.raised, reg, coord, NoValue)
        ELSE
        LET record == PostMortemRecord(old_agent.value.agent_id,
                                       old_agent.value.personality, rounds_survived,
                                       total_votes_received, elimination_round, was_tie)
            coord1 == [coord EXCEPT !.post_mortem_records = Append(@, record)]
            removed == registry_remove(reg, eliminated_agent_id)
        IN  IF removed.raised # "none"
            THEN Replaced(removed.raised, reg, coord1, NoValue)
            ELSE
            LET personality == generate(coord1, eliminated_agent_id)
                coord2 == [coord1 EXCEPT !.generation_count = @ + 1]
                new_agent == Agent(eliminated_agent_id, personality, coord.memory_window)
                added == registry_register(removed.value, new_agent)
            IN  IF added.raised # "none"
                THEN Replaced(added.raised, removed.value, coord2, NoValue)
                ELSE Replaced("none", added.value, coord2, new_agent)

-----------------------------------------------------------------------------
(* arena/controller.py: ArenaController *)

MINIMUM_AGENTS == 3

Ret(op, raised) == [op |-> op, raised |-> raised]

\* the operations that have succeeded so far
OpsDone == current_round + Len(voting_history) + Len(eliminations)
               + Len(coordinator.post_mortem_records)

\* _collect_responses leaving out the last agent of the registry
collect_responses_skip_last(reg, round_number, prompt) ==
    [i \in 1..(Len(reg) - 1) |->
        AgentResponse(reg[i].agent_id, generate_stub_response(reg[i], round_number, prompt))]

\* _collect_responses: the responses of the round, in registry order
collect_responses(reg, round_number, prompt) ==
    [i \in 1..Len(reg) |->
        AgentResponse(reg[i].agent_id, generate_stub_response(reg[i], round_number, prompt))]

\* the events _collect_responses emits, one per agent in registry order
responded_events(responses, round_number) ==
    [i \in 1..Len(responses) |->
        AgentRespondedEvent(round_number, responses[i].agent_id, responses[i].response)]

\* start_round counting the round before it looks at the registry
start_round_counts_first(prompt) ==
    IF Len(registry) < MINIMUM_AGENTS
    THEN /\ ret' = Ret("start_round", "InsufficientAgentsError")
         /\ current_round' = current_round + 1
         /\ OpsDone < MaxOps
         /\ UNCHANGED <<registry, round_history, voting_history,
                        cumulative_votes, log, eliminations>>
    ELSE LET n == current_round + 1
             responses == collect_responses(registry, n, prompt)
         IN  /\ OpsDone < MaxOps
             /\ current_round' = n
             /\ log' = (log \o <<RoundStartedEvent(n, prompt)>>)
                           \o responded_events(responses, n)
             /\ registry' = [i \in 1..Len(registry) |->
                                agent_after_response(registry[i], n, prompt)]
             /\ round_history' = Append(round_history,
                                        RoundState(n, prompt, responses, TRUE))
             /\ ret' = Ret("start_round", "none")
             /\ UNCHANGED <<voting_history, cumulative_votes, eliminations>>

\* start_round numbering the session by the counter before the increment
start_round_old_number(prompt) ==
    IF Len(registry) < MINIMUM_AGENTS
    THEN /\ ret' = Ret("start_round", "InsufficientAgentsError")
         /\ UNCHANGED <<registry, current_round, round_history, voting_history,
                        cumulative_votes, log, eliminations>>
    ELSE LET n == current_round + 1
             responses == collect_responses(registry, n, prompt)
         IN  /\ OpsDone < MaxOps
             /\ current_round' = n
             /\ log' = (log \o <<RoundStartedEvent(n, prompt)>>)
                           \o responded_events(responses, n)
             /\ registry' = [i \in 1..Len(registry) |->
                                agent_after_response(registry[i], n, prompt)]
             /\ round_history' = Append(round_history,
                                        RoundState(current_round, prompt, responses, TRUE))
             /\ ret' = Ret("start_round", "none")
             /\ UNCHANGED <<voting_history, cumulative_votes, eliminations>>

\* start_round writing RoundStarted after the responses
start_round_logs_start_last(prompt) ==
    IF Len(registry) < MINIMUM_AGENTS
    THEN /\ ret' = Ret("start_round", "InsufficientAgentsError")
         /\ UNCHANGED <<registry, current_round, round_history, voting_history,
                        cumulative_votes, log, eliminations>>
    ELSE LET n == current_round + 1
             responses == collect_responses(registry, n, prompt)
         IN  /\ OpsDone < MaxOps
             /\ current_round' = n
             /\ log' = (log \o responded_events(responses, n))
                           \o <<RoundStartedEvent(n, prompt)>>
             /\ registry' = [i \in 1..Len(registry) |->
                                agent_after_response(registry[i], n, prompt)]
             /\ round_history' = Append(round_history,
                                        RoundState(n, prompt, responses, TRUE))
             /\ ret' = Ret("start_round", "none")
             /\ UNCHANGED <<voting_history, cumulative_votes, eliminations>>

\* start_round writing no RoundStarted event
start_round_no_start_event(prompt) ==
    IF Len(registry) < MINIMUM_AGENTS
    THEN /\ ret' = Ret("start_round", "InsufficientAgentsError")
         /\ UNCHANGED <<registry, current_round, round_history, voting_history,
                        cumulative_votes, log, eliminations>>
    ELSE LET n == current_round + 1
             responses == collect_responses(registry, n, prompt)
         IN  /\ OpsDone < MaxOps
             /\ current_round' = n
             /\ log' = log \o responded_events(responses, n)
             /\ registry' = [i \in 1..Len(registry) |->
                                agent_after_response(registry[i], n, prompt)]
             /\ round_history' = Append(round_history,
                                        RoundState(n, prompt, responses, TRUE))
             /\ ret' = Ret("start_round", "none")
             /\ UNCHANGED <<voting_history, cumulative_votes, eliminations>>

\* ArenaController.start_round
start_round(prompt) ==
    IF Len(registry) < MINIMUM_AGENTS
    THEN /\ ret' = Ret("start_round", "InsufficientAgentsError")
         /\ UNCHANGED <<registry, current_round, round_history, voting_history,
                        cumulative_votes, log, eliminations>>
    ELSE LET n == current_round + 1
             responses == collect_responses(registry, n, prompt)
         IN  /\ OpsDone < MaxOps
             /\ current_round' = n
             /\ log' = (log \o <<RoundStartedEvent(n, prompt)>>)
                           \o responded_events(responses, n)
             /\ registry' = [i \in 1..Len(registry) |->
                                agent_after_response(registry[i], n, prompt)]
             /\ round_history' = Append(round_history,
                                        RoundState(n, prompt, responses, TRUE))
             /\ ret' = Ret("start_round", "none")
             /\ UNCHANGED <<voting_history, cumulative_votes, eliminations>>

\* _update_cumulative_votes storing the round's count in place of the sum
RECURSIVE update_cumulative_votes_overwrite(_, _, _)
update_cumulative_votes_overwrite(cum, results, i) ==
    IF i > Len(results) THEN cum
    ELSE update_cumulative_votes_overwrite(
             DictSet(cum, results[i].agent_id, results[i].votes_received), results, i + 1)

\* _update_cumulative_votes: the map after folding results[i..] into it
RECURSIVE update_cumulative_votes(_, _, _)
update_cumulative_votes(cum, results, i) ==
    IF i > Len(results) THEN cum
    ELSE LET a == results[i].agent_id
             withKey == IF a \in DOMAIN cum THEN cum ELSE DictSet(cum, a, 0)
         IN  update_cumulative_votes(
                 [withKey EXCEPT ![a] = @ + results[i].votes_received], results, i + 1)

\* the events conduct_voting emits for the validated votes
vote_cast_events(votes) ==
    [i \in 1..Len(votes) |->
        VoteCastEvent(votes[i].round_number, votes[i].voter_id, votes[i].voted_for_id)]

\* the vote_counts dict conduct_voting puts in the VoteSummary event
vote_counts_of(vrr) ==
    [a \in {vrr.results[i].agent_id : i \in 1..Len(vrr.results)} |->
        get_votes_for(vrr, a)]

\* conduct_voting logging each vote as it is validated, up to the offending one
conduct_voting_log_as_validated(round_state, vote_choices) ==
    LET collected == collect_votes(round_state, vote_choices)
    IN  IF collected.raised # "none"
        THEN /\ ret' = Ret("conduct_voting", collected.raised)
             /\ log' = log \o vote_cast_events(
                                  collect_votes_partial(round_state, vote_choices).value)
             /\ UNCHANGED <<registry, current_round, round_history, voting_history,
                            cumulative_votes, eliminations>>
        ELSE LET votes == collected.value
                 agent_ids == [i \in 1..Len(round_state.responses) |->
                                  round_state.responses[i].agent_id]
                 vrr == aggregate_votes(votes, round_state.round_number, agent_ids)
             IN  /\ OpsDone < MaxOps
                 /\ log' = (log \o vote_cast_events(votes))
                               \o <<VoteSummaryEvent(round_state.round_number,
                                                     vote_counts_of(vrr))>>
                 /\ cumulative_votes' = update_cumulative_votes(cumulative_votes,
                                                                vrr.results, 1)
                 /\ voting_history' = Append(voting_history, vrr)
                 /\ ret' = Ret("conduct_voting", "none")
                 /\ UNCHANGED <<registry, current_round, round_history, eliminations>>

\* conduct_voting writing the summary before the votes
conduct_voting_summary_first(round_state, vote_choices) ==
    LET collected == collect_votes(round_state, vote_choices)
    IN  IF collected.raised # "none"
        THEN /\ ret' = Ret("conduct_voting", collected.raised)
             /\ UNCHANGED <<registry, current_round, round_history, voting_history,
                            cumulative_votes, log, eliminations>>
        ELSE LET votes == collected.value
                 agent_ids == [i \in 1..Len(round_state.responses) |->
                                  round_state.responses[i].agent_id]
                 vrr == aggregate_votes(votes, round_state.round_number, agent_ids)
             IN  /\ OpsDone < MaxOps
                 /\ log' = (log \o <<VoteSummaryEvent(round_state.round_number,
                                                         vote_counts_of(vrr))>>)
                               \o vote_cast_events(votes)
                 /\ cumulative_votes' = update_cumulative_votes(cumulative_votes,
                                                                vrr.results, 1)
                 /\ voting_history' = Append(voting_history, vrr)
                 /\ ret' = Ret("conduct_voting", "none")
                 /\ UNCHANGED <<registry, current_round, round_history, eliminations>>

\* ArenaController.conduct_voting
conduct_voting(round_state, vote_choices) ==
    LET collected == collect_votes(round_state, vote_choices)
    IN  IF collected.raised # "none"
        THEN /\ ret' = Ret("conduct_voting", collected.raised)
             /\ UNCHANGED <<registry, current_round, round_history, voting_history,
                            cumulative_votes, log, eliminations>>
        ELSE LET votes == collected.value
                 agent_ids == [i \in 1..Len(round_state.responses) |->
                                  round_state.responses[i].agent_id]
                 vrr == aggregate_votes(votes, round_state.round_number, agent_ids)
             IN  /\ OpsDone < MaxOps
                 /\ log' = (log \o vote_cast_events(votes))
                               \o <<VoteSummaryEvent(round_state.round_number,
                                                     vote_counts_of(vrr))>>
                 /\ cumulative_votes' = update_cumulative_votes(cumulative_votes,
                                                                vrr.results, 1)
                 /\ voting_history' = Append(voting_history, vrr)
                 /\ ret' = Ret("conduct_voting", "none")
                 /\ UNCHANGED <<registry, current_round, round_history, eliminations>>

\* _calculate_historical_average dividing by the rounds started
calculate_historical_average_by_round(agent_id) ==
    IF voting_history = <<>> THEN Frac(0, 1)
    ELSE Frac(SumSeq([i \in 1..Len(voting_history) |->
                         get_votes_for(voting_history[i], agent_id)]),
              current_round)

\* _calculate_historical_average
calculate_historical_average(agent_id) ==
    IF voting_history = <<>> THEN Frac(0, 1)
    ELSE Frac(SumSeq([i \in 1..Len(voting_history) |->
                         get_votes_for(voting_history[i], agent_id)]),
              Len(voting_history))

\* _build_elimination_candidates taking the votes of the latest voting result
\* as the average
build_elimination_candidates_latest_average ==
    LET ids == get_ids(registry)
    IN  [i \in 1..Len(ids) |->
            EliminationCandidate(
                ids[i],
                IF ids[i] \in DOMAIN cumulative_votes THEN cumulative_votes[ids[i]] ELSE 0,
                IF voting_history = <<>> THEN Frac(0, 1)
                ELSE Frac(get_votes_for(voting_history[Len(voting_history)], ids[i]), 1))]

\* _build_elimination_candidates with a candidate that is not registered, at a
\* score above all others
build_elimination_candidates_with_stranger ==
    LET ids == get_ids(registry)
    IN  [i \in 1..(Len(ids) + 1) |->
            IF i > Len(ids)
            THEN EliminationCandidate("D", 1 + SumSeq([k \in 1..Len(ids) |->
                                                 ScoreOf(cumulative_votes, ids[k])]),
                                      Frac(0, 1))
            ELSE EliminationCandidate(
                     ids[i],
                     IF ids[i] \in DOMAIN cumulative_votes THEN cumulative_votes[ids[i]] ELSE 0,
                     calculate_historical_average(ids[i]))]

\* _build_elimination_candidates
build_elimination_candidates ==
    LET ids == get_ids(registry)
    IN  [i \in 1..Len(ids) |->
            EliminationCandidate(
                ids[i],
                IF ids[i] \in DOMAIN cumulative_votes THEN cumulative_votes[ids[i]] ELSE 0,
                calculate_historical_average(ids[i]))]

\* determine_elimination_candidate going on without a voting history
determine_elimination_candidate_no_guard ==
    LET decided == determine_elimination(build_elimination_candidates, random_seed)
    IN  IF decided.raised # "none"
        THEN /\ ret' = Ret("determine_elimination_candidate", decided.raised)
             /\ UNCHANGED <<registry, current_round, round_history, voting_history,
                            cumulative_votes, log, eliminations>>
        ELSE /\ OpsDone < MaxOps
             /\ log' = Append(log, EliminationDecidedEvent(
                                       current_round,
                                       decided.value.eliminated_agent_id,
                                       decided.value.cumulative_votes,
                                       decided.value.was_tie))
             /\ eliminations' = Append(eliminations,
                                       [round_number |-> current_round,
                                        result |-> decided.value])
             /\ ret' = Ret("determine_elimination_candidate", "none")
             /\ UNCHANGED <<registry, current_round, round_history, voting_history,
                            cumulative_votes>>

\* determine_elimination_candidate logging the round of the last voting result
determine_elimination_candidate_round_of_voting ==
    LET decided == IF voting_history = <<>> THEN Raise("ValueError")
                   ELSE determine_elimination(build_elimination_candidates, random_seed)
    IN  IF decided.raised # "none"
        THEN /\ ret' = Ret("determine_elimination_candidate", decided.raised)
             /\ UNCHANGED <<registry, current_round, round_history, voting_history,
                            cumulative_votes, log, eliminations>>
        ELSE /\ OpsDone < MaxOps
             /\ log' = Append(log, EliminationDecidedEvent(
                                       voting_history[Len(voting_history)].round_number,
                                       decided.value.eliminated_agent_id,
                                       decided.value.cumulative_votes,
                                       decided.value.was_tie))
             /\ eliminations' = Append(eliminations,
                                       [round_number |-> current_round,
                                        result |-> decided.value])
             /\ ret' = Ret("determine_elimination_candidate", "none")
             /\ UNCHANGED <<registry, current_round, round_history, voting_history,
                            cumulative_votes>>

\* determine_elimination_candidate
determine_elimination_candidate ==
    LET decided == IF voting_history = <<>> THEN Raise("ValueError")
                   ELSE determine_elimination(build_elimination_candidates, random_seed)
    IN  IF decided.raised # "none"
        THEN /\ ret' = Ret("determine_elimination_candidate", decided.raised)
             /\ UNCHANGED <<registry, current_round, round_history, voting_history,
                            cumulative_votes, log, eliminations>>
        ELSE /\ OpsDone < MaxOps
             /\ log' = Append(log, EliminationDecidedEvent(
                                       current_round,
                                       decided.value.eliminated_agent_id,
                                       decided.value.cumulative_votes,
                                       decided.value.was_tie))
             /\ eliminations' = Append(eliminations,
                                       [round_number |-> current_round,
                                        result |-> decided.value])
             /\ ret' = Ret("determine_elimination_candidate", "none")
             /\ UNCHANGED <<registry, current_round, round_history, voting_history,
                            cumulative_votes>>

\* execute_replacement that does not look whether a coordinator is configured
execute_replacement_always(elimination_result) ==
    LET  agent_id == elimination_result.eliminated_agent_id
             old_agent == registry_get(registry, agent_id)
         IN  IF old_agent.raised # "none"
             THEN /\ ret' = Ret("execute_replacement", old_agent.raised)
                  /\ UNCHANGED <<registry, current_round, round_history, voting_history,
                                 cumulative_votes, log, eliminations, coordinator>>
             ELSE LET replaced == replace_agent(registry, coordinator, agent_id,
                                               current_round,
                                               elimination_result.cumulative_votes,
                                               current_round,
                                               elimination_result.was_tie)
                  IN  /\ OpsDone < MaxOps
                      /\ registry' = replaced.registry
                      /\ coordinator' = replaced.coordinator
                      /\ ret' = Ret("execute_replacement", replaced.raised)
                      /\ IF replaced.raised # "none" THEN log' = log
                         ELSE log' = Append(log, AgentReplacedEvent(
                                 current_round, agent_id,
                                 personality_to_dict(old_agent.value.personality),
                                 personality_to_dict(
                                     registry_get(replaced.registry, agent_id)
                                         .value.personality)))
                      /\ UNCHANGED <<current_round, round_history, voting_history,
                                     cumulative_votes, eliminations>>

\* execute_replacement starting the new agent with the score 0
execute_replacement_resets_score(elimination_result) ==
    IF ~coordinator.configured
    THEN /\ ret' = Ret("execute_replacement", "none")
         /\ UNCHANGED <<registry, current_round, round_history, voting_history,
                        cumulative_votes, log, eliminations, coordinator>>
    ELSE LET agent_id == elimination_result.eliminated_agent_id
             old_agent == registry_get(registry, agent_id)
         IN  IF old_agent.raised # "none"
             THEN /\ ret' = Ret("execute_replacement", old_agent.raised)
                  /\ UNCHANGED <<registry, current_round, round_history, voting_history,
                                 cumulative_votes, log, eliminations, coordinator>>
             ELSE LET replaced == replace_agent(registry, coordinator, agent_id,
                                               current_round,
                                               elimination_result.cumulative_votes,
                                               current_round,
                                               elimination_result.was_tie)
                  IN  /\ OpsDone < MaxOps
                      /\ registry' = replaced.registry
                      /\ coordinator' = replaced.coordinator
                      /\ ret' = Ret("execute_replacement", replaced.raised)
                      /\ IF replaced.raised # "none" THEN log' = log
                         ELSE log' = Append(log, AgentReplacedEvent(
                                 current_round, agent_id,
                                 personality_to_dict(old_agent.value.personality),
                                 personality_to_dict(
                                     registry_get(replaced.registry, agent_id)
                                         .value.personality)))
                      /\ cumulative_votes' = DictSet(cumulative_votes, agent_id, 0)
                      /\ UNCHANGED <<current_round, round_history, voting_history,
                                     eliminations>>

\* execute_replacement taking the old personality from the registry after the
\* replacement
execute_replacement_snapshot_after(elimination_result) ==
    IF ~coordinator.configured
    THEN /\ ret' = Ret("execute_replacement", "none")
         /\ UNCHANGED <<registry, current_round, round_history, voting_history,
                        cumulative_votes, log, eliminations, coordinator>>
    ELSE LET agent_id == elimination_result.eliminated_agent_id
             old_agent == registry_get(registry, agent_id)
         IN  IF old_agent.raised # "none"
             THEN /\ ret' = Ret("execute_replacement", old_agent.raised)
                  /\ UNCHANGED <<registry, current_round, round_history, voting_history,
                                 cumulative_votes, log, eliminations, coordinator>>
             ELSE LET replaced == replace_agent(registry, coordinator, agent_id,
                                               current_round,
                                               elimination_result.cumulative_votes,
                                               current_round,
                                               elimination_result.was_tie)
                  IN  /\ OpsDone < MaxOps
                      /\ registry' = replaced.registry
                      /\ coordinator' = replaced.coordinator
                      /\ ret' = Ret("execute_replacement", replaced.raised)
                      /\ IF replaced.raised # "none" THEN log' = log
                         ELSE log' = Append(log, AgentReplacedEvent(
                                 current_round, agent_id,
                                 personality_to_dict(
                                     registry_get(replaced.registry, agent_id)
                                         .value.personality),
                                 personality_to_dict(
                                     registry_get(replaced.registry, agent_id)
                                         .value.personality)))
                      /\ UNCHANGED <<current_round, round_history, voting_history,
                                     cumulative_votes, eliminations>>

\* ArenaController.execute_replacement
execute_replacement(elimination_result) ==
    IF ~coordinator.configured
    THEN /\ ret' = Ret("execute_replacement", "none")
         /\ UNCHANGED <<registry, current_round, round_history, voting_history,
                        cumulative_votes, log, eliminations, coordinator>>
    ELSE LET agent_id == elimination_result.eliminated_agent_id
             old_agent == registry_get(registry, agent_id)
         IN  IF old_agent.raised # "none"
             THEN /\ ret' = Ret("execute_replacement", old_agent.raised)
                  /\ UNCHANGED <<registry, current_round, round_history, voting_history,
                                 cumulative_votes, log, eliminations, coordinator>>
             ELSE LET replaced == replace_agent(registry, coordinator, agent_id,
                                               current_round,
                                               elimination_result.cumulative_votes,
                                               current_round,
                                               elimination_result.was_tie)
                  IN  /\ OpsDone < MaxOps
                      /\ registry' = replaced.registry
                      /\ coordinator' = replaced.coordinator
                      /\ ret' = Ret("execute_replacement", replaced.raised)
                      /\ IF replaced.raised # "none" THEN log' = log
                         ELSE log' = Append(log, AgentReplacedEvent(
                                 current_round, agent_id,
                                 personality_to_dict(old_agent.value.personality),
                                 personality_to_dict(
                                     registry_get(replaced.registry, agent_id)
                                         .value.personality)))
                      /\ UNCHANGED <<current_round, round_history, voting_history,
                                     cumulative_votes, eliminations>>

-----------------------------------------------------------------------------
(* The inputs *)

RosterIds == {"A", "B", "C"}

\* the registries a controller is constructed with: enough agents, or too few
InitialRosters ==
    {[i \in 1..3 |-> Agent(IdSeq[i], DefaultPersonality, DefaultMemoryWindow)],
     [i \in 1..2 |-> Agent(IdSeq[i], DefaultPersonality, DefaultMemoryWindow)]}

\* a ballot is a dict: no voter twice
IsDict(pairs) == \A i, j \in 1..Len(pairs) : pairs[i][1] = pairs[j][1] => i = j

Ballots == {b \in SeqsUpTo(Ids \X Ids, MaxBallot) : IsDict(b)}

\* the ballots given to a controller: A and B vote, for A, B or the stranger D
Voters == {"A", "B"}
Targets == {"A", "B", "D"}
VoteChoices == {b \in SeqsUpTo(Voters \X Targets, MaxBallot) : IsDict(b)}

\* the results given to execute_replacement: those determine_elimination_candidate
\* has returned, and results the caller has built, for A, for B and for the
\* stranger D
ReplacementRequests ==
    {eliminations[k].result : k \in 1..Len(eliminations)}
        \cup {EliminationResult(a, 2, FALSE) : a \in {"A", "B", "D"}}

NoCall == [op |-> "none", args |-> NoValue, out |-> NoValue]

Call(op, args, out) == [op |-> op, args |-> args, out |-> out]

-----------------------------------------------------------------------------
(* Spec: one process runs a controller on an empty log file.  The callers of *)
(* conduct_voting take their ballots from VoteChoices.                        *)

Init ==
    /\ registry \in InitialRosters
    /\ current_round = 0
    /\ round_history = <<>>
    /\ voting_history = <<>>
    /\ cumulative_votes = <<>>
    /\ random_seed \in Seeds
    /\ log = <<>>
    /\ eliminations = <<>>
    /\ ret = Ret("init", "none")
    /\ hashOf \in [RosterIds -> HashValues]
    /\ result = NoCall
    /\ coordinator \in {Coordinator(c, random_seed, DefaultMemoryWindow) :
                             c \in BOOLEAN}

StartRound ==
    /\ \E prompt \in Prompts : start_round(prompt)
    /\ UNCHANGED <<random_seed, hashOf, result, coordinator>>

ConductVoting ==
    /\ \E i \in 1..Len(round_history) : \E vote_choices \in VoteChoices :
           conduct_voting(round_history[i], vote_choices)
    /\ UNCHANGED <<random_seed, hashOf, result, coordinator>>

DetermineEliminationCandidate ==
    /\ determine_elimination_candidate
    /\ UNCHANGED <<random_seed, hashOf, result, coordinator>>

ExecuteReplacement ==
    /\ \E elimination_result \in ReplacementRequests :
           execute_replacement(elimination_result)
    /\ UNCHANGED <<random_seed, hashOf, result>>

\* a new logger is created on the log file of the controller, which exists
\* since the controller's own logger was created
NewEventLogger ==
    /\ log' = EventLogger(TRUE, log)
    /\ ret' = Ret("EventLogger", "none")
    /\ UNCHANGED <<registry, current_round, round_history, voting_history,
                   cumulative_votes, eliminations, random_seed, hashOf, result,
                   coordinator>>

Next ==
    \/ StartRound
    \/ ConductVoting
    \/ DetermineEliminationCandidate
    \/ ExecuteReplacement
    \/ NewEventLogger

Spec == Init /\ [][Next]_vars

-----------------------------------------------------------------------------
(* The functions on their own.  No controller runs: its variables keep the    *)
(* values of a controller that has done nothing.                              *)

IdleController ==
    /\ registry \in {r \in InitialRosters : Len(r) = 3}
    /\ current_round = 0
    /\ round_history = <<>>
    /\ voting_history = <<>>
    /\ cumulative_votes = <<>>
    /\ random_seed = 0
    /\ log = <<>>
    /\ eliminations = <<>>
    /\ ret = Ret("init", "none")
    /\ coordinator = Coordinator(FALSE, 0, DefaultMemoryWindow)

(* SpecVote: collect_votes on any round state and ballot, then aggregate_votes *)
(* on the validated votes and the round's agent ids, as conduct_voting does.   *)

\* RoundState.add_response does not look at the ids already recorded
ParticipantLists == SeqsUpTo(Ids, MaxParticipants)

RoundStateOf(participants, round_number) ==
    RoundState(round_number, "p",
               [i \in 1..Len(participants) |->
                   AgentResponse(participants[i], <<participants[i], round_number>>)],
               TRUE)

InitVote ==
    /\ IdleController
    /\ hashOf = [a \in RosterIds |-> 0]
    /\ result = NoCall

CallCollectVotes ==
    /\ result = NoCall
    /\ \E participants \in ParticipantLists : \E vote_choices \in Ballots :
          LET round_state == RoundStateOf(participants, 1)
          IN  result' = Call("collect_votes",
                             [round_state |-> round_state, vote_choices |-> vote_choices],
                             collect_votes(round_state, vote_choices))
    /\ UNCHANGED <<ctrlVars, random_seed, hashOf>>

CallAggregateVotes ==
    /\ result.op = "collect_votes"
    /\ result.out.raised = "none"
    /\ LET round_state == result.args.round_state
           agent_ids == [i \in 1..Len(round_state.responses) |->
                            round_state.responses[i].agent_id]
       IN  result' = Call("aggregate_votes",
                          [votes |-> result.out.value,
                           round_number |-> round_state.round_number,
                           all_agent_ids |-> agent_ids],
                          aggregate_votes(result.out.value, round_state.round_number,
                                          agent_ids))
    /\ UNCHANGED <<ctrlVars, random_seed, hashOf>>

NextVote == CallCollectVotes \/ CallAggregateVotes

SpecVote == InitVote /\ [][NextVote]_vars

\* the ids that responded in a round state
ParticipantsOf(round_state) ==
    {round_state.responses[k].agent_id : k \in 1..Len(round_state.responses)}

SelfVoteAt(vote_choices, i) == vote_choices[i][1] = vote_choices[i][2]

BadTargetAt(round_state, vote_choices, i) ==
    vote_choices[i][2] \notin ParticipantsOf(round_state)

\* the ballot without its i-th entry
WithoutEntry(vote_choices, i) ==
    SubSeq(vote_choices, 1, i - 1) \o SubSeq(vote_choices, i + 1, Len(vote_choices))

\* C1: the aggregate of validated votes has exactly one result per participant
\* (those without votes too, with 0) and no other result, and the received
\* votes sum to the number of validated votes.
C1_VoteConservation ==
    result.op = "aggregate_votes" =>
        LET results == result.out.results
            participants == Range(result.args.all_agent_ids)
        IN  /\ \A a \in participants :
                   Cardinality({i \in 1..Len(results) : results[i].agent_id = a}) = 1
            /\ \A i \in 1..Len(results) :
                   /\ results[i].agent_id \in participants
                   /\ results[i].votes_received \in Nat
            /\ SumSeq([i \in 1..Len(results) |-> results[i].votes_received])
                   = Len(result.args.votes)

\* two validated votes for one participant of three, one of the others recorded twice
C1_Witness ==
    /\ result.op = "aggregate_votes"
    /\ Len(result.args.votes) = 2
    /\ Len(result.args.all_agent_ids) = 3
    /\ Len(result.out.results) = 2
    /\ \E i, j \in 1..Len(result.out.results) :
           /\ result.out.results[i].votes_received = 2
           /\ result.out.results[j].votes_received = 0

\* C6: a ballot with a self-vote makes collect_votes raise, with no votes
\* returned; when the self-vote is the only illegal entry, the ballot without
\* it is collected, and gives the other entries as votes in ballot order.
C6_SelfVoteRejected ==
    result.op = "collect_votes" =>
        LET round_state == result.args.round_state
            vote_choices == result.args.vote_choices
            entries == 1..Len(vote_choices)
        IN  /\ (\E i \in entries : SelfVoteAt(vote_choices, i)) =>
                   /\ result.out.raised \in {"SelfVoteError", "InvalidVoteError"}
                   /\ result.out.value = NoValue
            /\ \A i \in entries :
                   (/\ SelfVoteAt(vote_choices, i)
                    /\ \A j \in entries \ {i} :
                           /\ ~SelfVoteAt(vote_choices, j)
                           /\ ~BadTargetAt(round_state, vote_choices, j))
                   => LET rest == WithoutEntry(vote_choices, i)
                      IN  collect_votes(round_state, rest) =
                              Return([k \in 1..Len(rest) |->
                                         Vote(rest[k][1], rest[k][2],
                                              round_state.round_number)])

\* a legal entry, then a self-vote: SelfVoteError
C6_Witness ==
    /\ result.op = "collect_votes"
    /\ Len(result.args.vote_choices) = 2
    /\ ~SelfVoteAt(result.args.vote_choices, 1)
    /\ ~BadTargetAt(result.args.round_state, result.args.vote_choices, 1)
    /\ SelfVoteAt(result.args.vote_choices, 2)
    /\ result.out = Raise("SelfVoteError")

\* C7: a ballot with a target that did not respond in the round makes
\* collect_votes raise for the whole ballot, with no votes returned.
C7_InvalidTargetRejected ==
    result.op = "collect_votes" =>
        LET round_state == result.args.round_state
            vote_choices == result.args.vote_choices
        IN  (\E i \in 1..Len(vote_choices) : BadTargetAt(round_state, vote_choices, i)) =>
                /\ result.out.raised \in {"SelfVoteError", "InvalidVoteError"}
                /\ result.out.value = NoValue

\* a legal entry, then a vote for an id that is not in the round: InvalidVoteError
C7_Witness ==
    /\ result.op = "collect_votes"
    /\ Len(result.args.vote_choices) = 2
    /\ ~SelfVoteAt(result.args.vote_choices, 1)
    /\ ~BadTargetAt(result.args.round_state, result.args.vote_choices, 1)
    /\ ~SelfVoteAt(result.args.vote_choices, 2)
    /\ BadTargetAt(result.args.round_state, result.args.vote_choices, 2)
    /\ result.out = Raise("InvalidVoteError")

(* SpecElim: determine_elimination on any candidate list and seed, in a       *)
(* process with any str hash.                                                 *)

HistoricalAverages == {Frac(h, 2) : h \in 0..MaxAvgHalves}

Candidates ==
    {EliminationCandidate(a, v, h) :
        a \in RosterIds, v \in 0..MaxScore, h \in HistoricalAverages}

\* the candidate lists: one candidate per agent id, in any order
CandidateLists ==
    {cs \in SeqsUpTo(Candidates, Cardinality(RosterIds)) :
        \A i, j \in 1..Len(cs) : cs[i].agent_id = cs[j].agent_id => i = j}

InitElim ==
    /\ IdleController
    /\ hashOf \in [RosterIds -> HashValues]
    /\ result = NoCall

CallDetermineElimination ==
    /\ result = NoCall
    /\ \E candidates \in CandidateLists : \E seed \in Seeds :
          result' = Call("determine_elimination",
                         [candidates |-> candidates, seed |-> seed],
                         determine_elimination(candidates, seed))
    /\ UNCHANGED <<ctrlVars, random_seed, hashOf>>

NextElim == CallDetermineElimination

SpecElim == InitElim /\ [][NextElim]_vars

\* the places of the candidates with the highest cumulative_votes
AtMaxScore(candidates) ==
    {i \in 1..Len(candidates) :
        \A j \in 1..Len(candidates) :
            candidates[j].cumulative_votes <= candidates[i].cumulative_votes}

\* among those, the places of the candidates with the lowest historical_average
AtMinAverage(candidates) ==
    {i \in AtMaxScore(candidates) :
        \A j \in AtMaxScore(candidates) :
            FracLeq(candidates[i].historical_average, candidates[j].historical_average)}

\* C8: for a non-empty candidate list and any seed, the eliminated agent is a
\* candidate with the highest cumulative score, the result carries that score,
\* and was_tie says whether more than one candidate has it.
C8_EliminatesMaximum ==
    (result.op = "determine_elimination" /\ result.args.candidates # <<>>) =>
        LET candidates == result.args.candidates
            top == AtMaxScore(candidates)
        IN  /\ result.out.raised = "none"
            /\ \E i \in top :
                   /\ result.out.value.eliminated_agent_id = candidates[i].agent_id
                   /\ result.out.value.cumulative_votes = candidates[i].cumulative_votes
            /\ result.out.value.was_tie = (Cardinality(top) > 1)

\* three candidates, the last one alone at the top
C8_Witness ==
    /\ result.op = "determine_elimination"
    /\ Len(result.args.candidates) = 3
    /\ AtMaxScore(result.args.candidates) = {3}
    /\ result.out.value.eliminated_agent_id = result.args.candidates[3].agent_id
    /\ result.out.value.was_tie = FALSE

\* C9: when several candidates share the highest score and one of them alone
\* has the lowest historical average among them, that one is eliminated and
\* was_tie is true, for every seed and every order of the list.
C9_TieByAverage ==
    result.op = "determine_elimination" =>
        LET candidates == result.args.candidates
        IN  \A i \in 1..Len(candidates) :
                (Cardinality(AtMaxScore(candidates)) >= 2
                 /\ AtMinAverage(candidates) = {i})
                => /\ result.out.raised = "none"
                   /\ result.out.value.eliminated_agent_id = candidates[i].agent_id
                   /\ result.out.value.was_tie = TRUE

\* three at the top, the last of the list alone at the lowest average, while
\* the seeded key would put the first one first
C9_Witness ==
    /\ result.op = "determine_elimination"
    /\ Len(result.args.candidates) = 3
    /\ AtMaxScore(result.args.candidates) = {1, 2, 3}
    /\ AtMinAverage(result.args.candidates) = {3}
    /\ tie_key(result.args.candidates[1], result.args.seed)
           < tie_key(result.args.candidates[3], result.args.seed)
    /\ result.out.value.eliminated_agent_id = result.args.candidates[3].agent_id
    /\ result.out.value.was_tie = TRUE

\* C10: when several candidates share the highest score and the lowest average
\* among those at the highest score, the eliminated agent is one of them for
\* every seed, and was_tie is true.
C10_FullTieStaysInside ==
    result.op = "determine_elimination" =>
        LET candidates == result.args.candidates
        IN  Cardinality(AtMinAverage(candidates)) >= 2
            => /\ result.out.raised = "none"
               /\ \E i \in AtMinAverage(candidates) :
                      result.out.value.eliminated_agent_id = candidates[i].agent_id
               /\ result.out.value.was_tie = TRUE

\* the first candidate is at the top with a higher average, the other two are
\* fully tied, and the seeded key picks the last one although the first
\* candidate's key is as low
C10_Witness ==
    /\ result.op = "determine_elimination"
    /\ Len(result.args.candidates) = 3
    /\ AtMaxScore(result.args.candidates) = {1, 2, 3}
    /\ AtMinAverage(result.args.candidates) = {2, 3}
    /\ tie_key(result.args.candidates[1], result.args.seed)
           <= tie_key(result.args.candidates[3], result.args.seed)
    /\ tie_key(result.args.candidates[3], result.args.seed)
           < tie_key(result.args.candidates[2], result.args.seed)
    /\ result.out.value.eliminated_agent_id = result.args.candidates[3].agent_id

(* SpecProcesses: a second process, with its own str hash, resolves the        *)
(* candidates and the seed that a first process has resolved.                 *)

\* the first process has ended and another one starts
StartNewProcess ==
    /\ result.op = "determine_elimination"
    /\ hashOf' \in [RosterIds -> HashValues]
    /\ result' = Call("new_process", result.args, result.out)
    /\ UNCHANGED <<ctrlVars, random_seed>>

CallInNewProcess ==
    /\ result.op = "new_process"
    /\ result' = Call("determine_elimination_new_process",
                      [candidates |-> result.args.candidates,
                       seed |-> result.args.seed, first |-> result.out],
                      determine_elimination(result.args.candidates, result.args.seed))
    /\ UNCHANGED <<ctrlVars, random_seed, hashOf>>

NextProcesses == CallDetermineElimination \/ StartNewProcess \/ CallInNewProcess

SpecProcesses == InitElim /\ [][NextProcesses]_vars

\* C12: two processes that resolve the same candidate list with the same seed
\* eliminate the same agent.
C12_SamePickInEveryProcess ==
    (result.op = "determine_elimination_new_process" /\ result.out.raised = "none")
        => result.out.value.eliminated_agent_id
               = result.args.first.value.eliminated_agent_id

(* SpecReplay: replay of any log file, whoever wrote it.                      *)

LogRounds == {1, 2}

LogEntries ==
    UNION {{RoundStartedEvent(n, "p"),
            AgentRespondedEvent(n, "A", "r"),
            VoteCastEvent(n, "A", "B"),
            VoteSummaryEvent(n, [a \in {"A", "B"} |-> IF a = "B" THEN 1 ELSE 0]),
            EliminationDecidedEvent(n, "B", 1, FALSE),
            AgentReplacedEvent(n, "B", personality_to_dict(DefaultPersonality),
                               personality_to_dict(DefaultPersonality))} :
           n \in LogRounds}
    \cup {ArenaInitializedEvent(<<"A", "B", "C">>)}

InitReplay ==
    /\ IdleController
    /\ hashOf = [a \in RosterIds |-> 0]
    /\ result = NoCall

WriteEntry ==
    /\ result = NoCall
    /\ Len(log) < MaxLogLen
    /\ \E e \in LogEntries : log' = Append(log, e)
    /\ UNCHANGED <<registry, current_round, round_history, voting_history,
                   cumulative_votes, eliminations, ret, random_seed, hashOf, result,
                   coordinator>>

ReplayLog ==
    /\ result = NoCall
    /\ result' = Call("replay", log, replay(log))
    /\ UNCHANGED <<ctrlVars, random_seed, hashOf>>

NextReplay == WriteEntry \/ ReplayLog

SpecReplay == InitReplay /\ [][NextReplay]_vars

RoundEventTypes == {"AgentResponded", "VoteCast", "VoteSummary", "EliminationDecided"}

\* the entry at place i of the log is a RoundStarted of round n
StartsRound(events, i, n) ==
    /\ events[i].event_type = "RoundStarted"
    /\ events[i].data.round_number = n

\* the entry at place i refers to a round no earlier entry has started
Unstarted(events, i) ==
    /\ events[i].event_type \in RoundEventTypes
    /\ \A j \in 1..(i - 1) : ~StartsRound(events, j, events[i].data.round_number)

\* the entry at place i starts a round an earlier entry has started already
StartedAgain(events, i) ==
    /\ events[i].event_type = "RoundStarted"
    /\ \E j \in 1..(i - 1) : StartsRound(events, j, events[i].data.round_number)

\* C3: replay of a log holding a RoundStarted event for a round that an
\* earlier RoundStarted event has started raises ReplayInconsistencyError
\* and returns no summaries.
C3_DuplicateRoundStartRejected ==
    (result.op = "replay" /\ \E i \in 1..Len(result.args) : StartedAgain(result.args, i))
        => result.out.raised = "ReplayInconsistencyError"

\* C4: replay of a log in which an AgentResponded, VoteCast, VoteSummary or
\* EliminationDecided event refers to a round with no RoundStarted event before
\* it raises ReplayInconsistencyError and returns no summaries, whatever else
\* the log holds.
C4_UnstartedRoundRejected ==
    (result.op = "replay" /\ \E i \in 1..Len(result.args) : Unstarted(result.args, i))
        => result.out = Raise("ReplayInconsistencyError")

\* round 1 is started and answered, then a vote of round 2 arrives, which is
\* never started, and replay raises
C4_Witness ==
    /\ result.op = "replay"
    /\ Len(result.args) = 3
    /\ StartsRound(result.args, 1, 1)
    /\ result.args[2].event_type = "AgentResponded"
    /\ result.args[2].data.round_number = 1
    /\ result.args[3].event_type = "VoteCast"
    /\ result.args[3].data.round_number = 2
    /\ result.out = Raise("ReplayInconsistencyError")

-----------------------------------------------------------------------------
(* SpecReplace: replace_agent called on a coordinator and its registry with   *)
(* any identity and any scalars.                                              *)

MaxReplacements == 2

\* the registries a coordinator is given: new agents, or agents after a round
ReplaceRosters ==
    LET fresh == [i \in 1..3 |-> Agent(IdSeq[i], DefaultPersonality, DefaultMemoryWindow)]
    IN  {fresh, [i \in 1..3 |-> agent_after_response(fresh[i], 1, "p")]}

\* the coordinator's window is not the one the agents were created with
MemoryWindows == {1}

ReplaceArgs ==
    [eliminated_agent_id : Ids, rounds_survived : {1, 2}, total_votes_received : {3},
     elimination_round : {2}, was_tie : BOOLEAN]

InitReplace ==
    /\ registry \in ReplaceRosters
    /\ current_round = 0
    /\ round_history = <<>>
    /\ voting_history = <<>>
    /\ cumulative_votes = <<>>
    /\ random_seed = 0
    /\ log = <<>>
    /\ eliminations = <<>>
    /\ ret = Ret("init", "none")
    /\ hashOf \in [RosterIds -> HashValues]
    /\ result = NoCall
    /\ coordinator \in {Coordinator(TRUE, b, w) : b \in Seeds, w \in MemoryWindows}

ReplaceAgent ==
    /\ \E a \in ReplaceArgs :
          LET replaced == replace_agent(registry, coordinator, a.eliminated_agent_id,
                                        a.rounds_survived, a.total_votes_received,
                                        a.elimination_round, a.was_tie)
          IN  /\ replaced.raised = "none"
                    => Len(coordinator.post_mortem_records) < MaxReplacements
              /\ registry' = replaced.registry
              /\ coordinator' = replaced.coordinator
              /\ result' = Call("replace_agent",
                                [registry |-> registry, coordinator |-> coordinator,
                                 call |-> a],
                                [raised |-> replaced.raised, value |-> replaced.value])
    /\ UNCHANGED <<current_round, round_history, voting_history, cumulative_votes,
                   random_seed, log, eliminations, ret, hashOf>>

NextReplace == ReplaceAgent

SpecReplace == InitReplace /\ [][NextReplace]_vars

-----------------------------------------------------------------------------
(* The controller and its log, under Spec *)

\* the ballot has a self-vote or a vote for someone who is not in the round
IllegalBallot(round_state, vote_choices) ==
    \E i \in 1..Len(vote_choices) :
        SelfVoteAt(vote_choices, i) \/ BadTargetAt(round_state, vote_choices, i)

\* the step is a conduct_voting call on a session of round_history with an
\* illegal ballot
IllegalVotingStep ==
    \E i \in 1..Len(round_history) : \E vote_choices \in VoteChoices :
        /\ IllegalBallot(round_history[i], vote_choices)
        /\ conduct_voting(round_history[i], vote_choices)

\* the step ends in one of the two errors and changes neither the controller's
\* state nor the log
RaisedAndUntouched ==
    /\ ret'.op = "conduct_voting"
    /\ ret'.raised \in {"SelfVoteError", "InvalidVoteError"}
    /\ cumulative_votes' = cumulative_votes
    /\ voting_history' = voting_history
    /\ round_history' = round_history
    /\ current_round' = current_round
    /\ log' = log

\* C5: a conduct_voting call whose ballot has a self-vote or a target that is
\* not a participant of the round raises SelfVoteError or InvalidVoteError and
\* leaves cumulative_votes, voting_history, round_history, current_round and
\* the log as they were: no VoteCast and no VoteSummary event is written.
C5_FailedVotingAtomic == [][RaisedAndUntouched \/ ~IllegalVotingStep]_vars

\* a ballot was refused after an earlier ballot had been counted and logged
C5_Witness ==
    /\ ret.op = "conduct_voting"
    /\ ret.raised \in {"SelfVoteError", "InvalidVoteError"}
    /\ voting_history # <<>>
    /\ \E a \in DOMAIN cumulative_votes : cumulative_votes[a] > 0
    /\ \E k \in 1..Len(log) : log[k].event_type = "VoteCast"

\* the places in voting_history of the results of round n
VotingsOf(n) == {k \in 1..Len(voting_history) : voting_history[k].round_number = n}

\* the places in eliminations of the decisions taken in round n
DecisionsOf(n) == {k \in 1..Len(eliminations) : eliminations[k].round_number = n}

\* the counts of a voting result as a map from agent id to votes received
CountsOf(vrr) ==
    [a \in {vrr.results[k].agent_id : k \in 1..Len(vrr.results)} |->
        (CHOOSE k \in 1..Len(vrr.results) : vrr.results[k].agent_id = a) ]

LiveCounts(vrr) ==
    [a \in DOMAIN CountsOf(vrr) |-> vrr.results[CountsOf(vrr)[a]].votes_received]

\* what the run itself produced for round n: the session's responses, a
\* voting result of the round and an elimination decision of the round
LiveNumResponses(n) == Len(round_history[n].responses)

LiveVoting(n, num_votes, vote_counts) ==
    IF VotingsOf(n) = {} THEN num_votes = 0 /\ vote_counts = <<>>
    ELSE \E k \in VotingsOf(n) :
             /\ num_votes = Len(voting_history[k].votes)
             /\ vote_counts = LiveCounts(voting_history[k])

LiveEliminated(n, eliminated_agent_id) ==
    IF DecisionsOf(n) = {} THEN eliminated_agent_id = None
    ELSE \E k \in DecisionsOf(n) :
             eliminated_agent_id = eliminations[k].result.eliminated_agent_id

\* C2: after any run of start_round, conduct_voting on a session of
\* round_history and determine_elimination_candidate, replay of the log gives
\* one summary per round, with the response count, the vote count and
\* vote-count map of a voting result and the eliminated agent of a decision
\* (None when none was decided in the round) that the run produced for that
\* round.
C2_ReplayRoundTrip ==
    LET replayed == replay(log)
    IN  /\ replayed.raised = "none"
        /\ Len(replayed.value) = current_round
        /\ \A n \in 1..current_round :
               /\ replayed.value[n].round_number = n
               /\ round_history[n].round_number = n
               /\ replayed.value[n].num_responses = LiveNumResponses(n)
               /\ LiveVoting(n, replayed.value[n].num_votes,
                                replayed.value[n].vote_counts)
               /\ LiveEliminated(n, replayed.value[n].eliminated_agent_id)

\* the step is a start_round call on a registry of fewer than MINIMUM_AGENTS
TooFewStep ==
    /\ Len(registry) < MINIMUM_AGENTS
    /\ \E prompt \in Prompts : start_round(prompt)

\* the step ends in InsufficientAgentsError and changes neither the round
\* counter, the round history, the agents and their memories, nor the log
InsufficientAndUntouched ==
    /\ ret'.op = "start_round"
    /\ ret'.raised = "InsufficientAgentsError"
    /\ current_round' = current_round
    /\ round_history' = round_history
    /\ registry' = registry
    /\ log' = log

\* C13: start_round on a registry of fewer than 3 agents raises
\* InsufficientAgentsError and changes nothing: current_round, round_history
\* and every agent's memory stay as they were and no RoundStarted or
\* AgentResponded event is written.
C13_TooFewAgentsAtomic == [][InsufficientAndUntouched \/ ~TooFewStep]_vars

\* a controller with two agents has refused a round
C13_Witness ==
    /\ Len(registry) = 2
    /\ ret.op = "start_round"
    /\ ret.raised = "InsufficientAgentsError"
    /\ current_round = 0
    /\ log = <<>>

\* the step is a start_round call on a registry that is large enough
RoundStartStep ==
    /\ Len(registry) >= MINIMUM_AGENTS
    /\ \E prompt \in Prompts : start_round(prompt)

\* round_history has one session per round, the i-th numbered i
RoundsNumbered ==
    /\ Len(round_history) = current_round
    /\ \A i \in 1..Len(round_history) : round_history[i].round_number = i

\* C14: current_round is 0 at first, a successful start_round adds exactly 1
\* to it and no other step changes it; in every state round_history has
\* current_round sessions and the i-th has round number i.
C14_RoundNumbering ==
    /\ current_round = 0
    /\ []RoundsNumbered
    /\ [][\/ RoundStartStep /\ current_round' = current_round + 1
          \/ ~RoundStartStep /\ current_round' = current_round]_vars

\* two rounds have been started, and a vote, a decision and a replacement left
\* the counter at 2
C14_Witness ==
    /\ current_round = 2
    /\ Len(round_history) = 2
    /\ voting_history # <<>>
    /\ eliminations # <<>>
    /\ ret.op = "execute_replacement"

\* the agent ids of a session's responses, in the order they were recorded
RespondersOf(round_state) ==
    [k \in 1..Len(round_state.responses) |-> round_state.responses[k].agent_id]

NoRepeat(seq) == \A i, j \in 1..Len(seq) : seq[i] = seq[j] => i = j

\* every session of round_history is complete and has no agent twice
SessionsComplete ==
    \A i \in 1..Len(round_history) :
        /\ round_history[i].is_complete
        /\ NoRepeat(RespondersOf(round_history[i]))

\* the session a start_round step appends is complete and has one response
\* per agent of the registry as it was before the step, in its order
SessionOfRoster ==
    /\ Len(round_history') = Len(round_history) + 1
    /\ round_history'[Len(round_history')].is_complete
    /\ RespondersOf(round_history'[Len(round_history')]) = get_ids(registry)

\* the sessions already in round_history stay as they are
SessionsKept ==
    /\ Len(round_history') >= Len(round_history)
    /\ \A i \in 1..Len(round_history) : round_history'[i] = round_history[i]

\* C15: the session a successful start_round returns and stores is complete
\* and holds exactly one response for each agent that was in the registry when
\* the round started, in registry order, no agent twice; stored sessions are
\* complete in every state and no later step changes them.
C15_SessionsCompleteAndOrdered ==
    /\ []SessionsComplete
    /\ [][(RoundStartStep => SessionOfRoster) /\ SessionsKept]_vars

\* a round was started after A had been replaced, so that A answered last, and
\* round_history holds an earlier round in the old order
C15_Witness ==
    /\ Len(round_history) = 2
    /\ RespondersOf(round_history[1]) = <<"A", "B", "C">>
    /\ RespondersOf(round_history[2]) = <<"B", "C", "A">>
    /\ round_history[2].is_complete

\* the votes an agent id received in one voting result, 0 when it has no entry
ReceivedIn(vrr, a) ==
    SumSeq([k \in 1..Len(vrr.results) |->
               IF vrr.results[k].agent_id = a THEN vrr.results[k].votes_received ELSE 0])

\* the votes an agent id received over the whole voting history
ReceivedOverall(a) ==
    SumSeq([k \in 1..Len(voting_history) |-> ReceivedIn(voting_history[k], a)])

RunningSum ==
    /\ DOMAIN cumulative_votes \subseteq Ids
    /\ \A a \in Ids :
           /\ ScoreOf(cumulative_votes, a) = ReceivedOverall(a)
           /\ ScoreOf(cumulative_votes, a) >= 0

\* C16: in every state the cumulative score of every agent id is the sum, over
\* the entries of voting_history, of the votes it received in the entry (0
\* where it is absent); no score is negative and no step lowers a score.
C16_CumulativeIsRunningSum ==
    /\ []RunningSum
    /\ [][\A a \in Ids :
             ScoreOf(cumulative_votes', a) >= ScoreOf(cumulative_votes, a)]_vars

\* A received one vote in each of two voting results and was then replaced:
\* its score is still 2
C16_Witness ==
    /\ Len(voting_history) = 2
    /\ ReceivedIn(voting_history[1], "A") = 1
    /\ ReceivedIn(voting_history[2], "A") = 1
    /\ ScoreOf(cumulative_votes, "A") = 2
    /\ \E k \in 1..Len(coordinator.post_mortem_records) :
           coordinator.post_mortem_records[k].agent_id = "A"

\* C17: whenever the voting history is not empty, the average the controller
\* puts on each elimination candidate is the identity's received votes summed
\* over all voting-history entries (0 for an entry it is missing from),
\* divided by the number of entries.
C17_HistoricalAverage ==
    voting_history # <<>> =>
        \A i \in 1..Len(build_elimination_candidates) :
            LET c == build_elimination_candidates[i]
            IN  /\ c.agent_id = registry[i].agent_id
                /\ c.historical_average[2] > 0
                /\ c.historical_average[1] * Len(voting_history)
                       = c.historical_average[2] * ReceivedOverall(c.agent_id)

\* an elimination was decided over two voting results, with a candidate that
\* received one vote in one of them and none in the other: its average is 1/2
C17_Witness ==
    /\ ret = Ret("determine_elimination_candidate", "none")
    /\ Len(voting_history) = 2
    /\ current_round = 1
    /\ \E i \in 1..Len(build_elimination_candidates) :
           /\ build_elimination_candidates[i].historical_average = <<1, 2>>
           /\ ReceivedOverall(build_elimination_candidates[i].agent_id) = 1

\* the step is a determine_elimination_candidate call made before any voting
\* round has completed
NoHistoryStep ==
    /\ voting_history = <<>>
    /\ determine_elimination_candidate

\* the step ends in ValueError, writes no event and changes no controller state
NoHistoryAndUntouched ==
    /\ ret' = Ret("determine_elimination_candidate", "ValueError")
    /\ log' = log
    /\ eliminations' = eliminations
    /\ registry' = registry
    /\ current_round' = current_round
    /\ round_history' = round_history
    /\ voting_history' = voting_history
    /\ cumulative_votes' = cumulative_votes
    /\ coordinator' = coordinator

\* C18: determine_elimination_candidate called while the voting history is
\* empty, whether or not rounds have been started, raises ValueError (the
\* code's error for a missing voting history), writes no EliminationDecided
\* event and leaves every field of the controller as it was.
C18_NoVotingHistoryAtomic == [][NoHistoryAndUntouched \/ ~NoHistoryStep]_vars

\* a round has been started, no voting has completed, and the controller has
\* refused to decide an elimination
C18_Witness ==
    /\ ret = Ret("determine_elimination_candidate", "ValueError")
    /\ current_round = 1
    /\ Len(round_history) = 1
    /\ voting_history = <<>>
    /\ \A k \in 1..Len(log) : log[k].event_type # "EliminationDecided"

-----------------------------------------------------------------------------
(* The replacement coordinator, under SpecReplace.  result holds the last    *)
(* replace_agent call: the registry and coordinator it was made on, its      *)
(* arguments and its outcome.                                                *)

IdsOf(reg) == {reg[i].agent_id : i \in 1..Len(reg)}

\* C19: after a successful replace_agent the registry holds as many agents as
\* before the call, under the same set of ids and with no id twice, and the
\* replaced id is registered.
C19_ReplacementKeepsRoster ==
    (result.op = "replace_agent" /\ result.out.raised = "none") =>
        /\ Len(registry) = Len(result.args.registry)
        /\ IdsOf(registry) = IdsOf(result.args.registry)
        /\ Cardinality(IdsOf(registry)) = Len(registry)
        /\ registered(registry, result.args.call.eliminated_agent_id)

\* B, an agent that had answered a round, was replaced in a registry of three
C19_Witness ==
    /\ result.op = "replace_agent"
    /\ result.out.raised = "none"
    /\ result.args.call.eliminated_agent_id = "B"
    /\ Len(result.args.registry) = 3
    /\ registry_get(result.args.registry, "B").value.memory # <<>>
    /\ registry_get(registry, "B").value = result.out.value

\* the step is a replace_agent call that returned the new agent
ReplaceSucceeded ==
    /\ result'.op = "replace_agent"
    /\ result'.out.raised = "none"
    /\ result'.args.registry = registry
    /\ result'.args.coordinator = coordinator

\* the record of the call of this step: the id, the personality the id has in
\* the registry before the step, and the scalars of the call
RecordOfStep ==
    LET call == result'.args.call
    IN  PostMortemRecord(call.eliminated_agent_id,
                         registry_get(registry, call.eliminated_agent_id).value.personality,
                         call.rounds_survived, call.total_votes_received,
                         call.elimination_round, call.was_tie)

\* C20: the post-mortem records start empty; a successful replace_agent
\* appends exactly one record, carrying the replaced id, the personality the
\* id had before the replacement and the scalars of the call; every other
\* step leaves the records as they are.  So records keep their position and
\* contents and their number is the number of successful replacements.
C20_PostMortemsAppendOnly ==
    /\ coordinator.post_mortem_records = <<>>
    /\ [][IF ReplaceSucceeded
          THEN coordinator'.post_mortem_records
                   = Append(coordinator.post_mortem_records, RecordOfStep)
          ELSE coordinator'.post_mortem_records = coordinator.post_mortem_records]_vars

\* A was replaced twice: the second record carries the personality the first
\* replacement generated, the first the one A was created with
C20_Witness ==
    /\ Len(coordinator.post_mortem_records) = 2
    /\ coordinator.post_mortem_records[1].agent_id = "A"
    /\ coordinator.post_mortem_records[2].agent_id = "A"
    /\ coordinator.post_mortem_records[1].personality = DefaultPersonality
    /\ coordinator.post_mortem_records[2].personality # DefaultPersonality
    /\ coordinator.post_mortem_records[1].rounds_survived
           # coordinator.post_mortem_records[2].rounds_survived

-----------------------------------------------------------------------------
(* More on the controller and its log, under Spec *)

\* the step is an execute_replacement call on a controller without coordinator
UnconfiguredStep ==
    /\ ~coordinator.configured
    /\ \E elimination_result \in ReplacementRequests :
           execute_replacement(elimination_result)

\* the call returns, and the registry, the post-mortem records and the log are
\* as they were
ReturnedAndUntouched ==
    /\ ret' = Ret("execute_replacement", "none")
    /\ registry' = registry
    /\ coordinator' = coordinator
    /\ log' = log

\* C21: execute_replacement on a controller without a replacement coordinator
\* raises nothing and changes nothing: the registry, with the eliminated
\* agent's record, stays as it was, no post-mortem record is created and no
\* AgentReplaced event is written.
C21_UnconfiguredIsNoOp == [][ReturnedAndUntouched \/ ~UnconfiguredStep]_vars

\* the controller has decided an elimination and was asked to replace; the
\* eliminated agent is still registered, with the memory of its round
C21_Witness ==
    /\ ~coordinator.configured
    /\ ret = Ret("execute_replacement", "none")
    /\ Len(eliminations) = 1
    /\ registered(registry, eliminations[1].result.eliminated_agent_id)
    /\ registry_get(registry, eliminations[1].result.eliminated_agent_id).value.memory # <<>>
    /\ coordinator.post_mortem_records = <<>>
    /\ \A k \in 1..Len(log) : log[k].event_type # "AgentReplaced"

\* s is a prefix of t
IsPrefix(s, t) == Len(s) <= Len(t) /\ SubSeq(t, 1, Len(s)) = s

\* C22: the log is append-only.  Every step of the controller, and the
\* creation of a new logger on the existing log file, leaves the log's earlier
\* content as a prefix of its later content: no line is removed, rewritten or
\* reordered, and what a step writes comes after everything written before.
C22_LogAppendOnly == [][IsPrefix(log, log')]_vars

\* a new logger was created on a log file that holds a round and a vote
C22_Witness ==
    /\ Len(log) >= 5
    /\ log[1].event_type = "RoundStarted"
    /\ log[5].event_type = "VoteCast"
    /\ ret = Ret("EventLogger", "none")

-----------------------------------------------------------------------------
(* SpecRegistry: an AgentRegistry on its own, empty at first, with register,   *)
(* get and remove called in any order.  result holds the last call: the        *)
(* registry it was made on, its argument and its outcome.                      *)

\* the agents offered to register: two different agents under each id
AgentsOffered ==
    {Agent(a, DefaultPersonality, w) : a \in Ids, w \in {1, DefaultMemoryWindow}}

InitRegistry ==
    /\ registry = <<>>
    /\ current_round = 0
    /\ round_history = <<>>
    /\ voting_history = <<>>
    /\ cumulative_votes = <<>>
    /\ random_seed = 0
    /\ log = <<>>
    /\ eliminations = <<>>
    /\ ret = Ret("init", "none")
    /\ coordinator = Coordinator(FALSE, 0, DefaultMemoryWindow)
    /\ hashOf = [a \in RosterIds |-> 0]
    /\ result = NoCall

\* the registry after a call: the one returned, or the old one after a raise
RegistryAfter(reg, out) == IF out.raised = "none" THEN out.value ELSE reg

RegistryRegister ==
    /\ \E agent \in AgentsOffered :
          LET out == registry_register(registry, agent)
          IN  /\ registry' = RegistryAfter(registry, out)
              /\ result' = Call("register", [registry |-> registry, agent |-> agent],
                                [raised |-> out.raised])
    /\ UNCHANGED <<current_round, round_history, voting_history, cumulative_votes,
                   random_seed, log, eliminations, ret, hashOf, coordinator>>

RegistryGet ==
    /\ \E agent_id \in Ids :
          LET out == registry_get(registry, agent_id)
          IN  result' = Call("get", [registry |-> registry, agent_id |-> agent_id], out)
    /\ UNCHANGED <<registry, current_round, round_history, voting_history,
                   cumulative_votes, random_seed, log, eliminations, ret, hashOf,
                   coordinator>>

RegistryRemove ==
    /\ \E agent_id \in Ids :
          LET out == registry_remove(registry, agent_id)
          IN  /\ registry' = RegistryAfter(registry, out)
              /\ result' = Call("remove", [registry |-> registry, agent_id |-> agent_id],
                                [raised |-> out.raised])
    /\ UNCHANGED <<current_round, round_history, voting_history, cumulative_votes,
                   random_seed, log, eliminations, ret, hashOf, coordinator>>

NextRegistry ==
    \/ RegistryRegister
    \/ RegistryGet
    \/ RegistryRemove

SpecRegistry == InitRegistry /\ [][NextRegistry]_vars

\* C23: register of an id that is registered raises DuplicateAgentError, get
\* and remove of an id that is not registered raise AgentNotFoundError, each
\* of these leaves the registry, contents and order, as it was; and in every
\* state no id is held by two entries of the registry.
C23_RegistryErrorsAndUniqueIds ==
    /\ Cardinality(IdsOf(registry)) = Len(registry)
    /\ (result.op = "register"
           /\ registered(result.args.registry, result.args.agent.agent_id))
          => (result.out.raised = "DuplicateAgentError"
                /\ registry = result.args.registry)
    /\ (result.op \in {"get", "remove"}
           /\ ~registered(result.args.registry, result.args.agent_id))
          => (result.out.raised = "AgentNotFoundError"
                /\ registry = result.args.registry)

\* with A and B registered, a second, different agent was offered under the
\* id B and refused: the registry still holds the first one
C23_Witness ==
    /\ result.op = "register"
    /\ result.out.raised = "DuplicateAgentError"
    /\ result.args.agent.agent_id = "B"
    /\ get_ids(registry) = <<"A", "B">>
    /\ registry[2] # result.args.agent

-----------------------------------------------------------------------------
(* SpecMemory: an AgentMemory on its own.  result holds the window size, all  *)
(* the entries given to add_entry so far, and the entries the memory holds.   *)

MaxWindow == 3     \* window_size of the memory
MaxAppends == 5    \* calls of add_entry

WindowSizes == 1..MaxWindow

\* the entries given to add_entry: rounds 1 and 2
MemoryEntries == {MemoryEntry(n, "p", <<"A", n, "p", "concise">>) : n \in 1..2}

InitMemory ==
    /\ IdleController
    /\ hashOf = [a \in RosterIds |-> 0]
    /\ \E window_size \in WindowSizes :
           result = Call("AgentMemory",
                         [window_size |-> window_size, appended |-> <<>>], <<>>)

AddEntry ==
    /\ Len(result.args.appended) < MaxAppends
    /\ \E entry \in MemoryEntries :
           result' = Call("add_entry",
                          [window_size |-> result.args.window_size,
                           appended |-> Append(result.args.appended, entry)],
                          add_entry(result.out, result.args.window_size, entry))
    /\ UNCHANGED <<ctrlVars, random_seed, hashOf>>

NextMemory == AddEntry

SpecMemory == InitMemory /\ [][NextMemory]_vars

Min(a, b) == IF a <= b THEN a ELSE b

\* C24: after n calls of add_entry on a memory of window size W >= 1 the
\* memory holds min(n, W) entries, never more than W, and they are the last
\* min(n, W) entries given, in the order they were given.
C24_BoundedHistory ==
    LET W == result.args.window_size
        appended == result.args.appended
        n == Len(appended)
        held == result.out
    IN  /\ Len(held) = Min(n, W)
        /\ Len(held) <= W
        /\ \A k \in 1..Len(held) : held[k] = appended[n - Len(held) + k]

\* five entries were given to a memory of window 2; the two it holds are not
\* the first two given
C24_Witness ==
    /\ result.op = "add_entry"
    /\ result.args.window_size = 2
    /\ Len(result.args.appended) = 5
    /\ Len(result.out) = 2
    /\ result.out # SubSeq(result.args.appended, 1, 2)

-----------------------------------------------------------------------------
(* SpecSession: a RoundState on its own, created open and without responses, *)
(* with add_response called on it.  result holds the last call and the       *)
(* session after it.                                                         *)

ResponseTexts == {"x", "y"}

InitSession ==
    /\ IdleController
    /\ hashOf = [a \in RosterIds |-> 0]
    /\ result = Call("RoundState", [round_number |-> 1, prompt |-> "p"],
                     RoundState(1, "p", <<>>, FALSE))

AddResponse ==
    /\ Len(result.out.responses) < MaxParticipants
    /\ \E agent_id \in Ids : \E response \in ResponseTexts :
           result' = Call("add_response",
                          [agent_id |-> agent_id, response |-> response],
                          add_response(result.out, agent_id, response))
    /\ UNCHANGED <<ctrlVars, random_seed, hashOf>>

NextSession == AddResponse

SpecSession == InitSession /\ [][NextSession]_vars

\* C25: after any sequence of add_response calls on a session, each agent id
\* appears in at most one response of the session.
C25_NoAgentTwiceInSession == NoRepeat(RespondersOf(result.out))

-----------------------------------------------------------------------------
(* determine_elimination without candidates, under SpecElim *)

\* C26: determine_elimination called with an empty candidate list raises
\* ValueError, whatever the seed, and returns no result.
C26_NoCandidatesRaises ==
    (result.op = "determine_elimination" /\ result.args.candidates = <<>>) =>
        /\ result.out.raised = "ValueError"
        /\ result.out.value = NoValue

\* the call was made with no candidates and the seed -1
C26_Witness ==
    /\ result.op = "determine_elimination"
    /\ result.args.candidates = <<>>
    /\ result.args.seed = 0 - 1
    /\ result.out = Raise("ValueError")

-----------------------------------------------------------------------------
(* The order of the events of one call, under Spec *)

\* what a step has added to the log
Written == SubSeq(log', Len(log) + 1, Len(log'))

\* the step has written RoundStarted(n) and then one AgentResponded(n, id) for
\* each id of the registry, in registry order, and nothing else, and the
\* session it has stored is complete
RoundStartEvents ==
    LET n == current_round'
        ids == get_ids(registry)
    IN  /\ IsPrefix(log, log')
        /\ Len(Written) = 1 + Len(ids)
        /\ Written[1].event_type = "RoundStarted"
        /\ Written[1].data.round_number = n
        /\ \A i \in 1..Len(ids) :
               /\ Written[i + 1].event_type = "AgentResponded"
               /\ Written[i + 1].data.round_number = n
               /\ Written[i + 1].data.agent_id = ids[i]
        /\ round_history'[Len(round_history')].round_number = n
        /\ round_history'[Len(round_history')].is_complete

\* C27: a successful start_round for round n appends RoundStarted(n) first and
\* then exactly one AgentResponded(n, id) per registered id, in registry
\* order, with no other event in between; the session of the round is
\* complete once they are written.
C27_RoundStartEventOrder == [][RoundStartEvents \/ ~RoundStartStep]_vars

\* round 2 was started on the registry B, C, A (A had been replaced): the log
\* ends with RoundStarted(2) and the responses of B, C and A in this order
C27_Witness ==
    /\ ret = Ret("start_round", "none")
    /\ current_round = 2
    /\ get_ids(registry) = <<"B", "C", "A">>
    /\ Len(log) >= 4
    /\ log[Len(log) - 3].event_type = "RoundStarted"
    /\ log[Len(log) - 3].data.round_number = 2
    /\ log[Len(log) - 2].data.agent_id = "B"
    /\ log[Len(log) - 1].data.agent_id = "C"
    /\ log[Len(log)].data.agent_id = "A"

\* the step has written one VoteCast per entry of the ballot, in the ballot's
\* order, and then one VoteSummary whose counts are those of the result the
\* step has appended to the voting history and added to the cumulative scores
VoteEvents(round_state, vote_choices) ==
    LET n == round_state.round_number
        vrr == voting_history'[Len(voting_history')]
        counted == {vrr.results[k].agent_id : k \in 1..Len(vrr.results)}
    IN  /\ IsPrefix(log, log')
        /\ Len(Written) = Len(vote_choices) + 1
        /\ \A k \in 1..Len(vote_choices) :
               Written[k] = VoteCastEvent(n, vote_choices[k][1], vote_choices[k][2])
        /\ Written[Len(Written)].event_type = "VoteSummary"
        /\ Written[Len(Written)].data.round_number = n
        /\ Written[Len(Written)].data.vote_counts
               = [a \in counted |-> ReceivedIn(vrr, a)]
        /\ voting_history' = Append(voting_history, vrr)
        /\ vrr.round_number = n
        /\ \A a \in Ids :
               ScoreOf(cumulative_votes', a)
                   = ScoreOf(cumulative_votes, a) + ReceivedIn(vrr, a)

\* C28: a successful conduct_voting for round n appends one VoteCast(n, voter,
\* target) per validated vote, in the order of the ballot, and after them
\* exactly one VoteSummary(n) whose vote counts equal the result that the
\* call adds to the cumulative scores and appends to the voting history.
C28_VoteEventOrder ==
    [][\/ ret'.op # "conduct_voting"
       \/ ret'.raised # "none"
       \/ \A i \in 1..Len(round_history) : \A vote_choices \in VoteChoices :
              \/ ~conduct_voting(round_history[i], vote_choices)
              \/ VoteEvents(round_history[i], vote_choices)]_vars

\* the ballot B -> A, A -> B was voted on round 1: the log ends with the two
\* VoteCast events in this order and the VoteSummary of the round
C28_Witness ==
    /\ ret = Ret("conduct_voting", "none")
    /\ Len(log) >= 7
    /\ log[Len(log) - 2] = VoteCastEvent(1, "B", "A")
    /\ log[Len(log) - 1] = VoteCastEvent(1, "A", "B")
    /\ log[Len(log)].event_type = "VoteSummary"
    /\ log[Len(log)].data.vote_counts = [a \in {"A", "B", "C"} |->
                                            IF a = "C" THEN 0 ELSE 1]

-----------------------------------------------------------------------------
(* The log of a controller and replay, under Spec *)

\* every round event of the log comes after the RoundStarted of its round, and
\* no round is started twice
WellStarted(events) ==
    \A i \in 1..Len(events) : ~Unstarted(events, i) /\ ~StartedAgain(events, i)

\* C29: in every log a controller has written, every AgentResponded, VoteCast,
\* VoteSummary and EliminationDecided event of round n comes after a
\* RoundStarted(n) event and no round has two RoundStarted events, and replay
\* of the log does not raise ReplayInconsistencyError.
C29_ControllerLogsReplay ==
    /\ WellStarted(log)
    /\ replay(log).raised = "none"

\* the log holds round 1 with a vote and a decided elimination and the start
\* of round 2, and replay returns two summaries
C29_Witness ==
    /\ current_round = 2
    /\ \E i \in 1..Len(log) : log[i].event_type = "VoteCast"
    /\ \E i \in 1..Len(log) : log[i].event_type = "EliminationDecided"
    /\ log[Len(log)].event_type = "AgentResponded"
    /\ log[Len(log)].data.round_number = 2
    /\ Len(replay(log).value) = 2

-----------------------------------------------------------------------------
(* The tie-break tiers as the controller reaches them, under Spec *)

\* C30: in every state of the controller, two registered ids with the same
\* cumulative score get the same historical average from the controller (the
\* average is the score divided by the number of voting results).  So when
\* the candidates tie on the highest score, the tier of the lowest average
\* keeps all of them and the eliminated agent is the first of them with the
\* least key hash(agent_id) ^ seed.
C30_AverageTierNeverNarrows ==
    LET c == build_elimination_candidates
        top == AtMaxScore(c)
    IN  /\ \A i, j \in 1..Len(c) :
               c[i].cumulative_votes = c[j].cumulative_votes
                   => c[i].historical_average = c[j].historical_average
        /\ voting_history # <<>> =>
               /\ \A i \in 1..Len(c) :
                      c[i].historical_average[1] * Len(voting_history)
                          = c[i].historical_average[2] * c[i].cumulative_votes
               /\ Cardinality(top) >= 2 =>
                      /\ AtMinAverage(c) = top
                      /\ \E i \in top :
                             /\ determine_elimination(c, random_seed)
                                    .value.eliminated_agent_id = c[i].agent_id
                             /\ \A j \in top :
                                    tie_key(c[i], random_seed) <= tie_key(c[j], random_seed)

\* A got its vote in the first voting and B in the second: they tie on the
\* score 1 with the average 1/2 each, and the elimination was decided as a tie
C30_Witness ==
    /\ ret = Ret("determine_elimination_candidate", "none")
    /\ Len(voting_history) = 2
    /\ ReceivedIn(voting_history[1], "A") = 1
    /\ ReceivedIn(voting_history[1], "B") = 0
    /\ ReceivedIn(voting_history[2], "B") = 1
    /\ ReceivedIn(voting_history[2], "A") = 0
    /\ Len(eliminations) = 1
    /\ eliminations[1].result.was_tie
    /\ eliminations[1].result.cumulative_votes = 1
    /\ \A i \in AtMaxScore(build_elimination_candidates) :
           build_elimination_candidates[i].historical_average = <<1, 2>>

-----------------------------------------------------------------------------
(* The voting history and the tallies across operations, under Spec *)

\* C31: in every state of the controller the voting history holds at most
\* one voting result per round number, so it is no longer than the round
\* counter and no round's votes are counted twice in the cumulative scores.
C31_OneVotingPerRound ==
    /\ \A i, j \in 1..Len(voting_history) :
           voting_history[i].round_number = voting_history[j].round_number => i = j
    /\ Len(voting_history) <= current_round

\* the step is an execute_replacement call, on a controller with a coordinator,
\* for an agent that is registered
ReplacementStep ==
    /\ coordinator.configured
    /\ \E elimination_result \in ReplacementRequests :
           /\ registered(registry, elimination_result.eliminated_agent_id)
           /\ execute_replacement(elimination_result)

\* the step changes neither the scores, the histories nor the round counter
TalliesKept ==
    /\ cumulative_votes' = cumulative_votes
    /\ voting_history' = voting_history
    /\ round_history' = round_history
    /\ current_round' = current_round

\* C32: a successful execute_replacement leaves the cumulative votes, with the
\* entry of the replaced id, the voting history, the round history and the
\* round counter as they were: the new agent has the score of the old one.
C32_ReplacementKeepsTallies == [][TalliesKept \/ ~ReplacementStep]_vars

\* A had received a vote and was replaced: the new agent, with no memory, has
\* the score 1
C32_Witness ==
    /\ ret = Ret("execute_replacement", "none")
    /\ Len(coordinator.post_mortem_records) = 1
    /\ coordinator.post_mortem_records[1].agent_id = "A"
    /\ registry_get(registry, "A").value.memory = <<>>
    /\ ScoreOf(cumulative_votes, "A") = 1
    /\ Len(voting_history) = 1

\* the elimination decided last
LastDecided == eliminations[Len(eliminations)].result

\* an elimination was decided in the last call
JustDecided == ret = Ret("determine_elimination_candidate", "none")

\* C33: the agent determine_elimination_candidate has chosen is registered,
\* and execute_replacement called with that result, before anything else
\* changes the registry, does not raise AgentNotFoundError: it returns.
C33_DecidedAgentIsRegistered ==
    /\ [](JustDecided => registered(registry, LastDecided.eliminated_agent_id))
    /\ [][(JustDecided /\ execute_replacement(LastDecided))
              => ret' = Ret("execute_replacement", "none")]_vars

\* the elimination decided on a tie was handed to execute_replacement, which
\* replaced the agent: the post-mortem carries the decided id and score
C33_Witness ==
    /\ ret = Ret("execute_replacement", "none")
    /\ coordinator.configured
    /\ Len(eliminations) = 1
    /\ LastDecided.was_tie
    /\ Len(coordinator.post_mortem_records) = 1
    /\ coordinator.post_mortem_records[1].agent_id = LastDecided.eliminated_agent_id
    /\ coordinator.post_mortem_records[1].total_votes_received
           = LastDecided.cumulative_votes

-----------------------------------------------------------------------------
(* The order of the registry after a replacement, under Spec *)

\* the registry after the step has the replaced id last and the other ids in
\* the order they had
MovedToEnd(agent_id) ==
    LET other(a) == a # agent_id
    IN  get_ids(registry') = Append(SelectSeq(get_ids(registry), other), agent_id)

\* the sessions of the rounds started after the k-th replacement and up to the
\* round of the next one have the agent replaced then as their last responder
LastInLaterRounds ==
    LET records == coordinator.post_mortem_records
    IN  \A k \in 1..Len(records) : \A i \in 1..Len(round_history) :
            LET n == round_history[i].round_number
                responders == RespondersOf(round_history[i])
            IN  (/\ n > records[k].elimination_round
                 /\ k < Len(records) => n <= records[k + 1].elimination_round)
                    => responders[Len(responders)] = records[k].agent_id

\* every replacement step leaves the replaced id last in the registry
ReplacementsMoveToEnd ==
    [][\A elimination_result \in ReplacementRequests :
          \/ MovedToEnd(elimination_result.eliminated_agent_id)
          \/ ~coordinator.configured
          \/ ~registered(registry, elimination_result.eliminated_agent_id)
          \/ ~execute_replacement(elimination_result)]_vars

\* C34, amended: a successful replacement leaves the replaced id last in the
\* order of the registry and the other ids in their order, and in every round
\* started afterwards, until the next replacement, the replaced agent
\* responds last.
C34_ReplacedMovesToEnd == []LastInLaterRounds /\ ReplacementsMoveToEnd

\* the sessions of all the rounds started after a replacement have the agent
\* replaced then as their last responder
LastInAllLaterRounds ==
    LET records == coordinator.post_mortem_records
    IN  \A k \in 1..Len(records) : \A i \in 1..Len(round_history) :
            LET responders == RespondersOf(round_history[i])
            IN  round_history[i].round_number > records[k].elimination_round
                    => responders[Len(responders)] = records[k].agent_id

\* C34 as stated: a successful replacement leaves the replaced id last in the
\* order of the registry and the other ids in their order, and in every later
\* round the replaced agent responds last.
C34_ReplacedStaysLast == []LastInAllLaterRounds /\ ReplacementsMoveToEnd

\* A, first in the registry, was replaced in round 1, and in round 2 it has
\* responded after B and C
C34_Witness ==
    /\ Len(coordinator.post_mortem_records) = 1
    /\ coordinator.post_mortem_records[1].agent_id = "A"
    /\ coordinator.post_mortem_records[1].elimination_round = 1
    /\ get_ids(registry) = <<"B", "C", "A">>
    /\ Len(round_history) = 2
    /\ RespondersOf(round_history[1])[1] = "A"
    /\ RespondersOf(round_history[2])[3] = "A"

-----------------------------------------------------------------------------
(* Replacement of an agent that is not registered, under Spec *)

\* the step is an execute_replacement call, on a controller with a coordinator,
\* for an agent that is not registered
MissingAgentStep ==
    /\ coordinator.configured
    /\ \E elimination_result \in ReplacementRequests :
           /\ ~registered(registry, elimination_result.eliminated_agent_id)
           /\ execute_replacement(elimination_result)

\* the step ends in AgentNotFoundError and changes neither the registry, the
\* coordinator (its records and its generation count) nor the log
NotFoundAndUntouched ==
    /\ ret' = Ret("execute_replacement", "AgentNotFoundError")
    /\ registry' = registry
    /\ coordinator' = coordinator
    /\ log' = log

\* replace_agent on the registry and the coordinator of this state (where the
\* controller has a coordinator), for an
\* agent that is not registered, raises AgentNotFoundError and returns the
\* registry and the coordinator as they are
ReplaceOfMissingRefused ==
    coordinator.configured =>
    \A agent_id \in Ids \ IdsOf(registry) : \A was_tie \in BOOLEAN :
        replace_agent(registry, coordinator, agent_id, current_round, 0,
                      current_round, was_tie)
            = Replaced("AgentNotFoundError", registry, coordinator, NoValue)

\* C35: replace_agent for an id that is not registered raises
\* AgentNotFoundError before anything is changed: no post-mortem record is
\* appended, no personality is generated and the registry stays as it is;
\* execute_replacement for such an id raises the same error and writes no
\* AgentReplaced event.
C35_MissingAgentRefused ==
    /\ []ReplaceOfMissingRefused
    /\ [][NotFoundAndUntouched \/ ~MissingAgentStep]_vars

\* after A was replaced, the replacement of D, which is not registered, was
\* refused: there is one post-mortem record and one AgentReplaced event
C35_Witness ==
    /\ ret = Ret("execute_replacement", "AgentNotFoundError")
    /\ coordinator.configured
    /\ ~registered(registry, "D")
    /\ Len(coordinator.post_mortem_records) = 1
    /\ coordinator.generation_count = 1
    /\ Len(log) = 1
    /\ log[1].event_type = "AgentReplaced"
    /\ log[1].data.agent_id = "A"

-----------------------------------------------------------------------------
(* What a replacement writes, under Spec *)

\* what execute_replacement(elimination_result) on a registered agent leaves:
\* the log has one more event, AgentReplaced with the current round, the id,
\* the personality the registry held before and the personality it holds
\* after; there is one more post-mortem record, of this id, with
\* rounds_survived and elimination_round at the current round
ReplacementWritten(elimination_result) ==
    LET agent_id == elimination_result.eliminated_agent_id
        records == coordinator.post_mortem_records
        records_after == coordinator'.post_mortem_records
        record == records_after[Len(records_after)]
    IN  /\ ret' = Ret("execute_replacement", "none")
        /\ registered(registry', agent_id)
        /\ log' = Append(log, AgentReplacedEvent(
                       current_round, agent_id,
                       personality_to_dict(
                           registry_get(registry, agent_id).value.personality),
                       personality_to_dict(
                           registry_get(registry', agent_id).value.personality)))
        /\ Len(records_after) = Len(records) + 1
        /\ SubSeq(records_after, 1, Len(records)) = records
        /\ record.agent_id = agent_id
        /\ record.rounds_survived = current_round
        /\ record.elimination_round = current_round

\* every execute_replacement step on a registered agent leaves that
ReplacementsWritten ==
    \A elimination_result \in ReplacementRequests :
        \/ ~(/\ coordinator.configured
              /\ registered(registry, elimination_result.eliminated_agent_id)
              /\ execute_replacement(elimination_result))
        \/ ReplacementWritten(elimination_result)

\* C36: an execute_replacement on a controller with a coordinator, for a
\* registered agent, appends exactly one event to the log: AgentReplaced with
\* the current round number, the id, the personality of the agent before the
\* replacement and the personality of the agent the registry holds after it;
\* the post-mortem record it adds has rounds_survived and elimination_round
\* equal to the current round number.
C36_ReplacementLogged == [][ReplacementsWritten]_vars

\* after one round B was replaced by an agent of another personality: the last
\* event is AgentReplaced of round 1 with two different personalities
C36_Witness ==
    /\ ret = Ret("execute_replacement", "none")
    /\ current_round = 1
    /\ Len(log) > 1
    /\ log[Len(log)].event_type = "AgentReplaced"
    /\ log[Len(log)].data.agent_id = "B"
    /\ log[Len(log)].data.round_number = 1
    /\ log[Len(log)].data.old_personality # log[Len(log)].data.new_personality
    /\ Len(coordinator.post_mortem_records) = 1
    /\ coordinator.post_mortem_records[1].rounds_survived = 1

-----------------------------------------------------------------------------
(* What an elimination decision writes, under Spec *)

\* the step is a determine_elimination_candidate call that returns a result
DecisionStep ==
    /\ determine_elimination_candidate
    /\ ret' = Ret("determine_elimination_candidate", "none")

\* the result the step returns
Decided == eliminations'[Len(eliminations')].result

\* the step appends one event, EliminationDecided with the current round, the
\* id and the was_tie of the result and the cumulative votes of that id, and
\* changes neither the registry, the scores, the histories, the round counter
\* nor the coordinator
DecisionWritten ==
    /\ Len(eliminations') = Len(eliminations) + 1
    /\ log' = Append(log, EliminationDecidedEvent(
                   current_round, Decided.eliminated_agent_id,
                   ScoreOf(cumulative_votes, Decided.eliminated_agent_id),
                   Decided.was_tie))
    /\ registry' = registry
    /\ cumulative_votes' = cumulative_votes
    /\ voting_history' = voting_history
    /\ round_history' = round_history
    /\ current_round' = current_round
    /\ coordinator' = coordinator

\* C38: a determine_elimination_candidate call that returns a result appends
\* exactly one event, EliminationDecided, whose round number is the
\* controller's current round, whose eliminated id and was_tie are those of
\* the result and whose cumulative_votes is the cumulative score of that id;
\* the registry, the cumulative votes, the round and voting histories and the
\* round counter stay as they were.
C38_DecisionLogged == [][DecisionWritten \/ ~DecisionStep]_vars

\* round 2 was started after the voting of round 1 and then the elimination
\* was decided: the event carries round 2 and the score 1 of the eliminated id
C38_Witness ==
    /\ ret = Ret("determine_elimination_candidate", "none")
    /\ current_round = 2
    /\ Len(voting_history) = 1
    /\ voting_history[1].round_number = 1
    /\ log[Len(log)].event_type = "EliminationDecided"
    /\ log[Len(log)].data.round_number = 2
    /\ log[Len(log)].data.cumulative_votes = 1
    /\ ~log[Len(log)].data.was_tie

-----------------------------------------------------------------------------
(* The agent a replacement registers, under SpecReplace *)

\* C37: the agent a successful replace_agent returns has the id of the
\* eliminated agent, an empty memory, whatever the memory of the eliminated
\* agent held, and the memory window of the coordinator; registry.get of the
\* id returns this agent.
C37_NewAgentIsFresh ==
    (result.op = "replace_agent" /\ result.out.raised = "none") =>
        LET agent_id == result.args.call.eliminated_agent_id
            new_agent == result.out.value
        IN  /\ new_agent.agent_id = agent_id
            /\ new_agent.memory = <<>>
            /\ new_agent.window_size = result.args.coordinator.memory_window
            /\ registry_get(registry, agent_id) = Return(new_agent)

\* the eliminated agent A had a memory entry and another window than the
\* coordinator's; the agent registered for it has neither
C37_Witness ==
    /\ result.op = "replace_agent"
    /\ result.out.raised = "none"
    /\ result.args.call.eliminated_agent_id = "A"
    /\ registry_get(result.args.registry, "A").value.memory # <<>>
    /\ registry_get(result.args.registry, "A").value.window_size
           # result.args.coordinator.memory_window
    /\ registry_get(registry, "A").value.memory = <<>>
    /\ registry_get(registry, "A").value.window_size = coordinator.memory_window

-----------------------------------------------------------------------------
(* The summaries replay returns, under SpecReplay *)

\* the round numbers the log has a RoundStarted event for
StartedRounds(events) ==
    {events[i].data.round_number :
        i \in {j \in 1..Len(events) : events[j].event_type = "RoundStarted"}}

\* the entry at place i of the log is an EliminationDecided of round n
DecidesRound(events, i, n) ==
    /\ events[i].event_type = "EliminationDecided"
    /\ events[i].data.round_number = n

\* the place of the last RoundStarted event of round n
LastStart(events, n) ==
    CHOOSE i \in 1..Len(events) :
        /\ StartsRound(events, i, n)
        /\ \A j \in (i + 1)..Len(events) : ~StartsRound(events, j, n)

\* one summary for each started round, in the ascending order of the round
\* numbers
OnePerStartedRoundAscending(events, summaries) ==
    /\ Len(summaries) = Cardinality(StartedRounds(events))
    /\ \A i \in 1..Len(summaries) : summaries[i].round_number \in StartedRounds(events)
    /\ \A i, j \in 1..Len(summaries) :
           i < j => summaries[i].round_number < summaries[j].round_number

-----------------------------------------------------------------------------
(* The events replay has no branch for, under SpecReplay *)

\* replay has a branch for the entry
Handled(entry) == entry.event_type \in {"RoundStarted"} \cup RoundEventTypes

\* the log without the ArenaInitialized and the AgentReplaced events
WithoutUnhandled(events) == SelectSeq(events, Handled)

\* C40: replay of a log returns, or raises, what replay of the log without its
\* ArenaInitialized and AgentReplaced events returns or raises: such events
\* raise nothing, also when they name a round that was never started, and
\* change no summary, wherever they stand in the log.
C40_UnhandledEventsIgnored ==
    result.op = "replay" => result.out = replay(WithoutUnhandled(result.args))

\* an AgentReplaced event of round 2, which is never started, and an
\* ArenaInitialized event stand around the start and the elimination of round
\* 1: replay returns the summary of round 1
C40_Witness ==
    /\ result.op = "replay"
    /\ Len(result.args) = 4
    /\ result.args[1].event_type = "AgentReplaced"
    /\ result.args[1].data.round_number = 2
    /\ StartsRound(result.args, 2, 1)
    /\ result.args[3].event_type = "ArenaInitialized"
    /\ DecidesRound(result.args, 4, 1)
    /\ result.out.raised = "none"
    /\ Len(result.out.value) = 1
    /\ result.out.value[1].eliminated_agent_id = "B"

====
